---- MODULE Spec2Model ----
(***************************************************************************)
(* centrifuge: the fix-mode pipeline of src/centrifuge.py and the helpers   *)
(* of src/functions.py, over an explicit model of the filesystem.           *)
(*                                                                          *)
(* A path is a sequence of names (the components of an absolute POSIX       *)
(* path); a name is a record [id, sfx, cut, len, ext]: the base string id,  *)
(* the integer suffix "_k" appended by move_duplicate (0: none), the total  *)
(* length the name was truncated to by enforce_max_path (0: not truncated), *)
(* the length of the base string and the length of its extension.          *)
(* The filesystem is a pair of path sets, directories d and files f.        *)
(***************************************************************************)
EXTENDS Integers, Sequences, FiniteSets, TLC

VARIABLES
    args,             \* the parsed command line and the folders main() derives from it
    rel,              \* release id -> what load_directory / validator.fix yield for it
    fs,               \* the filesystem: [d |-> directories, f |-> files]
    loc,              \* release id -> the directory that holds the release now
    unique_releases,  \* fix_releases' set of UniqueRelease objects
    todo,             \* release ids the release_dirs iterator has not yielded yet
    status,           \* "running", or "aborted" once an exception left fix_releases
    last,             \* what the latest call did: the release, the function called
                      \* on its folder, the path returned, the steps taken, the
                      \* filesystem calls made, the exception raised, the
                      \* PermissionErrors before its renames succeeded
    perm              \* the `while True` rename loop the run is retrying in: the
                      \* release, the loop and the PermissionErrors so far

vars == <<args, rel, fs, loc, unique_releases, todo, status, last, perm>>

----------------------------------------------------------------------------
(* Bounds of the model *)

NumReleases == 2

\* the PermissionErrors os.rename raises before it succeeds
MaxDenied == 2

(* Program constants *)

MAX_PATH == 255
\* the longest name the filesystem takes (NAME_MAX): os.rename and os.makedirs
\* raise OSError (ENAMETOOLONG) for a longer one
NAME_MAX == 255
MAX_PARENT == 245
ELLIPSIS_LEN == 2

----------------------------------------------------------------------------
(* Names and paths *)

\* the values of ReleaseCategory
CategoryValues == {"Album", "EP", "Compilation", "Mix"}

\* len(id) for the strings of the model.  The two long names stand for a
\* folder name of 240 and a file name of 250 characters, of which the string
\* is the beginning
BaseLen(id) ==
    CASE id = "Artist - Long Title [MP3]" -> 240
      [] id = "long track.mp3" -> 250
      [] id = "" -> 0
      [] id \in {"N1", "N2", "o1", "o2", "o3", "o4", "EP"} -> 2
      [] id \in {"top", "src", "lib", "dup", "inv", "sub", "cd1", "Mix", "CD1", "CD2"} -> 3
      [] id = "Art1" -> 4
      [] id \in {"Album", "album", "Other", "Plain"} -> 5
      [] id = "<none>" -> 6
      [] id \in {"keep.txt", "AlbumCD1"} -> 8
      [] id \in {"track.mp3", "Album CD1", "Album CD2", "album CD2", "Other CD1"} -> 9
      [] id = "01 - t.mp3" -> 10
      [] id \in {"Compilation", "Album [MP3]"} -> 11
      [] id = "Album CD1 [MP3]" -> 15

\* len(os.path.splitext(id)[1])
ExtLen(id) ==
    IF id \in {"long track.mp3", "track.mp3", "01 - t.mp3", "keep.txt"} THEN 4 ELSE 0

\* a name of the given length, the last ext characters of which are its
\* extension (len(os.path.splitext(name)[1])).  dots: the dots the name begins
\* with, which os.path.splitext never takes for an extension; mark: the
\* characters at the end of a shortened name that are the marker ".." and the
\* extension it was shortened with
Sized(id, len, ext) ==
    [id |-> id, sfx |-> 0, cut |-> 0, len |-> len, ext |-> ext, dots |-> 0, mark |-> 0]

Nm(id) == Sized(id, BaseLen(id), ExtLen(id))

NoPath == <<Nm("<none>")>>

NameLen(n) ==
    IF n.cut > 0 THEN n.cut
    ELSE n.len + (IF n.sfx > 0 THEN 2 ELSE 0)

RECURSIVE PathLen(_)
PathLen(p) == IF p = <<>> THEN 0 ELSE 1 + NameLen(Head(p)) + PathLen(Tail(p))

Parent(p) == IF p = <<>> THEN <<>> ELSE SubSeq(p, 1, Len(p) - 1)
Basename(p) == p[Len(p)]
Join(p, n) == Append(p, n)

IsPrefix(a, p) == Len(a) <= Len(p) /\ SubSeq(p, 1, Len(a)) = a

\* os.path.normcase on POSIX
NormCase(p) == p

----------------------------------------------------------------------------
(* The filesystem.  A world W carries the filesystem, the location of every *)
(* release directory, the exception in flight (if any) and the log of the   *)
(* mutating calls made so far in this iteration.                            *)

Exists(W, p) == p = <<>> \/ p \in W.d \/ p \in W.f

IsDir(W, p) == p = <<>> \/ p \in W.d

\* os.listdir
ListDir(W, p) == {q \in W.d \cup W.f : Len(q) = Len(p) + 1 /\ IsPrefix(p, q)}

Raise(W, e) == [W EXCEPT !.exc = e]

\* the components of p at which no directory is found
NotDirs(W, p) == {k \in 1..Len(p) : SubSeq(p, 1, k) \notin W.d}

\* the error of a call that needs the directory p and does not find one.  The
\* system walks along p and stops at the first component that is no
\* directory: ENAMETOOLONG when its name is longer than NAME_MAX, ENOTDIR when
\* it is a file, ENOENT when it is missing
NoDirectory(W, p) ==
    IF NotDirs(W, p) = {} THEN "FileNotFoundError"
    ELSE LET k == CHOOSE j \in NotDirs(W, p) : \A m \in NotDirs(W, p) : j <= m
         IN  IF NameLen(p[k]) > NAME_MAX THEN "OSError"
             ELSE IF SubSeq(p, 1, k) \in W.f THEN "NotADirectoryError"
             ELSE "FileNotFoundError"

\* the errors a call raises for meeting an entry where its target is
EntryInTheWay == {"OSError", "NotADirectoryError", "IsADirectoryError", "FileExistsError"}

Log(W, e) == [W EXCEPT !.ev = Append(@, e)]

Remap(src, dst, p) ==
    IF IsPrefix(src, p) THEN dst \o SubSeq(p, Len(src) + 1, Len(p)) ELSE p

\* the error os.rename comes to while it resolves its two paths, "" when it
\* resolves both: the walk to either parent, a name longer than NAME_MAX, a
\* source that is missing, a path that is an ancestor of the other (EINVAL
\* for the source, ENOTEMPTY for the destination)
RenameLookup(W, src, dst) ==
    IF ~IsDir(W, Parent(src)) THEN NoDirectory(W, Parent(src))
    ELSE IF ~IsDir(W, Parent(dst)) THEN NoDirectory(W, Parent(dst))
    ELSE IF NameLen(Basename(src)) > NAME_MAX THEN "OSError"
    ELSE IF ~Exists(W, src) THEN "FileNotFoundError"
    ELSE IF NameLen(Basename(dst)) > NAME_MAX THEN "OSError"
    ELSE IF src # dst /\ (IsPrefix(src, dst) \/ IsPrefix(dst, src)) THEN "OSError"
    ELSE ""

\* os.rename on POSIX: the subtree at src is relocated to dst; an entry at dst
\* is replaced when it is of the kind of src and, for a directory, empty
Rename(W, src, dst) ==
    IF W.exc # "" THEN W
    ELSE IF RenameLookup(W, src, dst) # "" THEN Raise(W, RenameLookup(W, src, dst))
    ELSE IF src = dst THEN W
    ELSE IF Exists(W, dst) /\ IsDir(W, src) /\ ~IsDir(W, dst)
    THEN Raise(W, "NotADirectoryError")
    ELSE IF Exists(W, dst) /\ ~IsDir(W, src) /\ IsDir(W, dst)
    THEN Raise(W, "IsADirectoryError")
    ELSE IF Exists(W, dst) /\ ListDir(W, dst) # {} THEN Raise(W, "OSError")
    ELSE LET D == W.d \ {dst}
             F == W.f \ {dst}
         IN  [W EXCEPT !.d = {Remap(src, dst, p) : p \in D},
                       !.f = {Remap(src, dst, p) : p \in F},
                       !.loc = [r \in DOMAIN @ |-> Remap(src, dst, @[r])],
                       !.ev = Append(@, [op |-> "rename", src |-> src, dst |-> dst,
                                         existed |-> Exists(W, dst),
                                         entries |-> {}])]

\* os.rename outside a `while True` loop: W.deny counts down to the call the
\* system refuses (0: it refuses none), and the PermissionError is not caught.
\* The system looks at the permissions once both paths are resolved and are
\* two entries, and before it looks at what lies at dst
RenameOnce(W, src, dst) ==
    IF W.exc # "" THEN W
    ELSE IF W.deny = 1 /\ RenameLookup(W, src, dst) = "" /\ src # dst
    THEN Raise([W EXCEPT !.deny = 0], "PermissionError")
    ELSE Rename([W EXCEPT !.deny = IF @ > 0 THEN @ - 1 ELSE 0], src, dst)

\* os.mkdir(p)
Mkdir(W, p) ==
    IF W.exc # "" THEN W
    ELSE IF ~IsDir(W, Parent(p)) THEN Raise(W, NoDirectory(W, Parent(p)))
    ELSE IF NameLen(Basename(p)) > NAME_MAX THEN Raise(W, "OSError")
    ELSE IF Exists(W, p) THEN Raise(W, "FileExistsError")
    ELSE [W EXCEPT !.d = @ \cup {p}]

\* `try: mkdir(name) except OSError: if not exist_ok or not path.isdir(name):
\* raise` with exist_ok = True: the error of a directory that is there is let go
MkdirExistOk(W, name) ==
    IF W.exc = "" /\ IsDir(W, name) THEN W ELSE Mkdir(W, name)

\* os.makedirs(name, exist_ok=True), the calls it makes: the missing parents
\* are made first, one by one, and stay when a later mkdir fails
RECURSIVE MakeParents(_, _)
MakeParents(W, name) ==
    IF W.exc # "" \/ name = <<>> THEN W
    ELSE MkdirExistOk(IF ~Exists(W, Parent(name)) THEN MakeParents(W, Parent(name)) ELSE W,
                      name)

\* a call of os.makedirs that made directories and returned is logged
MakeDirsLogged(W, M, p) ==
    IF M.exc # "" \/ M.d = W.d THEN M
    ELSE Log(M, [op |-> "makedirs", src |-> p, dst |-> p, existed |-> FALSE,
                 entries |-> {}])

\* os.makedirs(p, exist_ok=True)
MakeDirs(W, p) ==
    IF W.exc # "" THEN W ELSE MakeDirsLogged(W, MakeParents(W, p), p)

\* os.rmdir; the log keeps what p held when rmdir was called on it
Rmdir(W, p) ==
    IF W.exc # "" THEN W
    ELSE IF p \notin W.d THEN Raise(W, NoDirectory(W, p))
    ELSE IF ListDir(W, p) # {}
    THEN Raise(Log(W, [op |-> "rmdir", src |-> p, dst |-> p, existed |-> TRUE,
                       entries |-> ListDir(W, p)]), "OSError")
    ELSE [W EXCEPT !.d = @ \ {p},
                   !.ev = Append(@, [op |-> "rmdir", src |-> p, dst |-> p,
                                     existed |-> TRUE, entries |-> {}])]

----------------------------------------------------------------------------
(* UniqueRelease *)

UniqueRelease(artists, year, title, codec, rank, path) ==
    [artists |-> artists, year |-> year, title |-> title, codec |-> codec,
     rank |-> rank, path |-> path]

\* an __eq__ that compares the rank as well
UEqWithRank(a, b) ==
    a.artists = b.artists /\ a.year = b.year /\ a.title = b.title /\ a.codec = b.codec
        /\ a.rank = b.rank

\* UniqueRelease.__eq__ (and __hash__): the four-tuple only
UEq(a, b) ==
    a.artists = b.artists /\ a.year = b.year /\ a.title = b.title /\ a.codec = b.codec

\* a comparison that lets a tie win
UGe(a, b) == a.rank >= b.rank

\* UniqueRelease.__gt__
UGt(a, b) == a.rank > b.rank

\* `x in s`, s.remove(x) and s.add(x) of a Python set whose members compare by UEq
SetContains(U, u) == \E x \in U : UEq(x, u)
SetRemove(U, u) == {x \in U : ~UEq(x, u)}
SetAdd(U, u) == IF SetContains(U, u) THEN U ELSE U \cup {u}

----------------------------------------------------------------------------
(* move_duplicate *)

\* release_folder_name + "_{attempt}"
WithSuffix(n, attempt) == IF attempt = 0 THEN n ELSE [n EXCEPT !.sfx = attempt]

\* a search that counts once more after it found a free name
RECURSIVE FreeAttemptOffByOne(_, _, _, _)
FreeAttemptOffByOne(W, duplicate_folder, name, attempt) ==
    IF ~Exists(W, Join(duplicate_folder, WithSuffix(name, attempt)))
    THEN attempt + 1
    ELSE FreeAttemptOffByOne(W, duplicate_folder, name, attempt + 1)

RECURSIVE FreeAttempt(_, _, _, _)
FreeAttempt(W, duplicate_folder, name, attempt) ==
    IF ~Exists(W, Join(duplicate_folder, WithSuffix(name, attempt)))
    THEN attempt
    ELSE FreeAttempt(W, duplicate_folder, name, attempt + 1)

\* os.rename(source_folder, curr_dest_folder); return curr_dest_folder
RenamedTo(W, source_folder, curr_dest_folder) ==
    [w |-> RenameOnce(W, source_folder, curr_dest_folder), ret |-> curr_dest_folder]

\* returns [w |-> the world afterwards, ret |-> the returned path]
MoveDuplicate(W, duplicate_folder, source_folder, release_folder_name) ==
    RenamedTo(W, source_folder,
              Join(duplicate_folder,
                   WithSuffix(release_folder_name,
                              FreeAttempt(W, duplicate_folder, release_folder_name, 0))))

----------------------------------------------------------------------------
(* "clean up empty directories": while not os.listdir(p): os.rmdir(p); p = parent *)

\* a test that looks for subdirectories only
HasNoSubdirectory(W, p) == ListDir(W, p) \cap W.d = {}

\* `not os.listdir(p)`
IsEmptyDir(W, p) == ListDir(W, p) = {}

RECURSIVE CleanUp(_, _)
CleanUp(W, p) ==
    IF W.exc # "" THEN W
    ELSE IF ~IsDir(W, p) THEN Raise(W, NoDirectory(W, p))
    ELSE IF ~IsEmptyDir(W, p) THEN W
    ELSE IF p = <<>> THEN Raise(W, "OSError")
    ELSE CleanUp(Rmdir(W, p), Parent(p))

----------------------------------------------------------------------------
(* move_rename_folder *)

JoinOpt(p, s) == IF s = "" THEN p ELSE Join(p, Nm(s))

\* release.get_folder_name(codec_short=..., group_by_category=...)
GetFolderName(r) == Nm(r.folder)

\* os.path.join(dest_folder, category_folder, artist_folder)
CurrDestParentFolder(a, r) ==
    LET artist_folder == IF a.group_by_artist /\ ~r.is_va THEN r.artist_folder ELSE ""
        category_folder == IF a.group_by_category THEN r.category ELSE ""
    IN  JoinOpt(JoinOpt(a.dest_folder, category_folder), artist_folder)

\* a rename that does not look whether the canonical name is taken
RenameInPlaceUnchecked(W, r, curr_dir) ==
    [w |-> Rename(W, curr_dir, Join(Parent(curr_dir), GetFolderName(r))),
     moved_dir |-> Join(Parent(curr_dir), GetFolderName(r)),
     fixed_dir |-> Join(Parent(curr_dir), GetFolderName(r)), steps |-> {"renamed"}]

\* step 1, "rename the release folder": [w, moved_dir, fixed_dir, steps]
RenameInPlace(W, r, curr_dir) ==
    LET fixed_dir == Join(Parent(curr_dir), GetFolderName(r))
    IN  IF curr_dir # fixed_dir
        THEN IF ~Exists(W, fixed_dir) \/ NormCase(curr_dir) = NormCase(fixed_dir)
             THEN [w |-> Rename(W, curr_dir, fixed_dir), moved_dir |-> fixed_dir,
                   fixed_dir |-> fixed_dir, steps |-> {"renamed"}]
             ELSE [w |-> W, moved_dir |-> curr_dir, fixed_dir |-> fixed_dir,
                   steps |-> {"rename_blocked"}]
        ELSE [w |-> W, moved_dir |-> curr_dir, fixed_dir |-> fixed_dir, steps |-> {}]

\* the release went to the duplicate folder because its destination is taken
Redirected(m) ==
    [w |-> m.w, moved_dir |-> m.ret, moved_duplicate |-> TRUE, steps |-> {"redirected"}]

\* a move that does not look whether the destination is taken
MoveOverOccupant(W, a, r, moved_dir, fixed_dir, curr_dest_folder) ==
    [w |-> CleanUp(RenameOnce(W, moved_dir, curr_dest_folder), Parent(fixed_dir)),
     moved_dir |-> curr_dest_folder, moved_duplicate |-> FALSE, steps |-> {"moved"}]

\* `if not os.path.exists(curr_dest_folder)` and its else branch; W is the
\* world after the destination's parent folder was made
MoveOrRedirect(W, a, r, moved_dir, fixed_dir, curr_dest_folder) ==
    IF ~Exists(W, curr_dest_folder)
    THEN [w |-> CleanUp(RenameOnce(W, moved_dir, curr_dest_folder), Parent(fixed_dir)),
          moved_dir |-> curr_dest_folder, moved_duplicate |-> FALSE, steps |-> {"moved"}]
    ELSE IF a.duplicate_folder # NoPath
    THEN Redirected(MoveDuplicate(W, a.duplicate_folder, moved_dir, GetFolderName(r)))
    ELSE [w |-> W, moved_dir |-> moved_dir, moved_duplicate |-> FALSE,
          steps |-> {"dest_exists"}]

\* step 2, "move the release folder to a destination":
\* [w, moved_dir, moved_duplicate, steps]
MoveToDest(W, a, r, moved_dir, fixed_dir) ==
    LET parent == CurrDestParentFolder(a, r)
        curr_dest_folder == Join(parent, GetFolderName(r))
    IN  IF a.dest_folder # NoPath /\ r.num_violations = 0
           /\ NormCase(moved_dir) # NormCase(curr_dest_folder)
        THEN MoveOrRedirect(IF ~Exists(W, parent) THEN MakeDirs(W, parent) ELSE W,
                            a, r, moved_dir, fixed_dir, curr_dest_folder)
        ELSE [w |-> W, moved_dir |-> moved_dir, moved_duplicate |-> FALSE, steps |-> {}]

\* an entry that records the path move_duplicate returned
DemotedExistingTrackedLate(m, U, unique_release) ==
    [w |-> m.w,
     u |-> IF m.w.exc # "" THEN U
           ELSE SetAdd(SetRemove(U, unique_release), [unique_release EXCEPT !.path = m.ret]),
     moved_dir |-> m.ret, steps |-> {"demoted_existing"}]

\* "move the existing one", then remove and add on the set
DemotedExisting(m, U, unique_release) ==
    [w |-> m.w,
     u |-> IF m.w.exc # "" THEN U
           ELSE SetAdd(SetRemove(U, unique_release), unique_release),
     moved_dir |-> m.ret, steps |-> {"demoted_existing"}]

\* "move the current one"
DemotedNew(m, U) ==
    [w |-> m.w, u |-> U, moved_dir |-> m.ret, steps |-> {"demoted_new"}]

\* `duplicate_folder and release.num_violations == 0 and not moved_duplicate`
DedupApplies(a, r, moved_duplicate) ==
    a.duplicate_folder # NoPath /\ r.num_violations = 0 /\ ~moved_duplicate

\* [x for x in unique_releases if x == unique_release][0]
Existing(U, unique_release) == CHOOSE x \in U : UEq(x, unique_release)

\* step 3, "deduplicate versions of the same release": [w, u, moved_dir, steps]
Deduplicate(W, U, a, r, moved_dir, moved_duplicate) ==
    LET unique_release == UniqueRelease(r.artists, r.year, r.title, r.codec, r.rank, moved_dir)
    IN  IF DedupApplies(a, r, moved_duplicate)
        THEN IF SetContains(U, unique_release)
             THEN IF UGt(unique_release, Existing(U, unique_release))
                  THEN DemotedExisting(
                           MoveDuplicate(W, a.duplicate_folder,
                                         Existing(U, unique_release).path,
                                         Basename(Existing(U, unique_release).path)),
                           U, unique_release)
                  ELSE DemotedNew(
                           MoveDuplicate(W, a.duplicate_folder, moved_dir, GetFolderName(r)),
                           U)
             ELSE [w |-> W, u |-> SetAdd(U, unique_release), moved_dir |-> moved_dir,
                   steps |-> {"tracked"}]
        ELSE [w |-> W, u |-> U, moved_dir |-> moved_dir, steps |-> {}]

\* `return moved_dir`: [w, u, ret, steps]
Returned(steps, s3) ==
    [w |-> s3.w, u |-> s3.u, ret |-> s3.moved_dir, steps |-> steps \cup s3.steps]

\* move_rename_folder from step 3 on; s2 is what step 2 left
FromDedup(U, a, r, steps, s2) ==
    Returned(steps \cup s2.steps,
             IF s2.w.exc # ""
             THEN [w |-> s2.w, u |-> U, moved_dir |-> s2.moved_dir, steps |-> {}]
             ELSE Deduplicate(s2.w, U, a, r, s2.moved_dir, s2.moved_duplicate))

\* move_rename_folder from step 2 on; s1 is what step 1 left
FromMove(U, a, r, s1) ==
    FromDedup(U, a, r, s1.steps,
              IF s1.w.exc # ""
              THEN [w |-> s1.w, moved_dir |-> s1.moved_dir, moved_duplicate |-> FALSE,
                    steps |-> {}]
              ELSE MoveToDest(s1.w, a, r, s1.moved_dir, s1.fixed_dir))

\* returns [w, u, ret, steps]; ret is meaningful only when w.exc = ""
MoveRenameFolder(W, U, a, r, curr_dir) ==
    IF a.dry_run \/ ~r.can_validate_folder_name
    THEN [w |-> W, u |-> U, ret |-> curr_dir, steps |-> {"skipped"}]
    ELSE FromMove(U, a, r, RenameInPlace(W, r, curr_dir))

----------------------------------------------------------------------------
(* move_invalid_folder: [w, ret] *)

\* a move that does not look at the kinds of the violations
MoveInvalidOfAnyKind(W, curr_dir, invalid_folder, violations, move_invalid) ==
    IF invalid_folder = NoPath
    THEN [w |-> W, ret |-> curr_dir]
    ELSE IF ~Exists(W, Join(invalid_folder, Basename(curr_dir)))
    THEN [w |-> RenameOnce(W, curr_dir, Join(invalid_folder, Basename(curr_dir))),
          ret |-> Join(invalid_folder, Basename(curr_dir))]
    ELSE [w |-> W, ret |-> curr_dir]

\* a move that does not look whether the invalid folder has the name already
MoveInvalidOverEntry(W, curr_dir, invalid_folder, violations, move_invalid) ==
    IF invalid_folder = NoPath
    THEN [w |-> W, ret |-> curr_dir]
    ELSE IF move_invalid \in violations
    THEN [w |-> RenameOnce(W, curr_dir, Join(invalid_folder, Basename(curr_dir))),
          ret |-> Join(invalid_folder, Basename(curr_dir))]
    ELSE [w |-> W, ret |-> curr_dir]

MoveInvalidFolder(W, curr_dir, invalid_folder, violations, move_invalid) ==
    IF invalid_folder = NoPath
    THEN [w |-> W, ret |-> curr_dir]
    ELSE LET dest == Join(invalid_folder, Basename(curr_dir))
         IN  IF ~Exists(W, dest) /\ move_invalid \in violations
             THEN [w |-> RenameOnce(W, curr_dir, dest), ret |-> dest]
             ELSE [w |-> W, ret |-> curr_dir]

----------------------------------------------------------------------------
(* enforce_max_path *)

\* the characters of the path string p before its component k, the
\* separator in front of the component included
StartOf(p, k) == PathLen(SubSeq(p, 1, k - 1)) + 1

\* len(s[:c]) for a string s of n characters
SliceLen(n, c) ==
    IF c >= 0 THEN (IF c < n THEN c ELSE n)
    ELSE (IF n + c > 0 THEN n + c ELSE 0)

\* the characters curr_prefix[:255-len(curr_ext)-2] keeps of the path p
KeptLen(p) ==
    SliceLen(PathLen(p) - Basename(p).ext, MAX_PATH - Basename(p).ext - ELLIPSIS_LEN)

\* the component of p in which the slice ends; a slice that keeps nothing
\* ends before the first
CutIn(p) ==
    IF KeptLen(p) = 0 THEN 0
    ELSE CHOOSE k \in 1..Len(p) :
             /\ StartOf(p, k) <= KeptLen(p)
             /\ k = Len(p) \/ StartOf(p, k + 1) > KeptLen(p)

\* the working directory of the process, against which a path that lost its
\* leading separator is resolved.  enforce_max_path reads it only for an entry
\* whose extension leaves nothing of the path (253 characters or more); the
\* runs that hold such an entry have it in args.cwd
WorkDir == args.cwd

\* curr_prefix[:255-len(curr_ext)-2] + ".." + curr_ext: the components in
\* front of the cut, and what is kept of the cut component with the marker
\* and the extension appended.  os.path.splitext gives the new name the
\* extension of the entry (the last dot of the marker when the entry has
\* none) if a character other than a dot is kept in front of the marker, and
\* no extension if the name begins with the marker or with dots only
NewFullPath(p) ==
    LET e == Basename(p).ext
        comp == IF CutIn(p) = 0 THEN Basename(p) ELSE p[CutIn(p)]
        kept == IF CutIn(p) = 0 THEN 0 ELSE KeptLen(p) - StartOf(p, CutIn(p))
        name == [comp EXCEPT
                    !.sfx = 0,
                    !.cut = kept + ELLIPSIS_LEN + e,
                    !.mark = ELLIPSIS_LEN + e,
                    !.dots = IF kept > comp.dots THEN comp.dots
                             ELSE kept + ELLIPSIS_LEN + (IF e > 0 THEN 1 ELSE 0),
                    !.ext = IF kept <= comp.dots THEN 0
                            ELSE IF e = 0 THEN 1 ELSE e]
    IN  IF CutIn(p) = 0 THEN Join(WorkDir, name)
        ELSE Join(SubSeq(p, 1, CutIn(p) - 1), name)

\* a limit on the parent that is never reached
ParentNeverTooLong(p) == FALSE

\* len(os.path.split(curr_full_path)[0]) >= 245
ParentTooLong(p) == PathLen(Parent(p)) >= MAX_PARENT

EnforceEntry(W, curr_full_path) ==
    IF W.exc # "" THEN W
    ELSE IF PathLen(curr_full_path) > MAX_PATH
    THEN IF ParentTooLong(curr_full_path)
         THEN Raise(W, "ValueError")
         ELSE IF ~Exists(W, NewFullPath(curr_full_path))
              THEN RenameOnce(W, curr_full_path, NewFullPath(curr_full_path))
              ELSE W
    ELSE W

RECURSIVE EnforceEntries(_, _)
EnforceEntries(W, order) ==
    IF order = <<>> THEN W
    ELSE EnforceEntries(EnforceEntry(W, Head(order)), Tail(order))

\* order: the entries of path in the order os.scandir yields them
EnforceMaxPath(W, path, order) ==
    IF W.exc # "" THEN W
    ELSE IF ~IsDir(W, path) THEN Raise(W, NoDirectory(W, path))
    ELSE EnforceEntries(W, order)

\* the orders in which os.scandir may yield the entries of path
ScanOrders(W, path) ==
    LET S == ListDir(W, path)
    IN  {o \in [1..Cardinality(S) -> S] : \A i, j \in DOMAIN o : i # j => o[i] # o[j]}

----------------------------------------------------------------------------
(* rename_files, for a release of one track.  r.track is the track's path   *)
(* relative to the release directory, r.correct what get_filename returns   *)
(* for it (<<>> for None).                                                  *)

WriteTags(W, file) ==
    IF W.exc # "" THEN W
    ELSE IF file \notin W.f THEN Raise(W, "FileNotFoundError")
    ELSE Log(W, [op |-> "write_tags", src |-> file, dst |-> file, existed |-> TRUE,
                 entries |-> {}])

RenameFiles(W, r, parent_path, dry_run) ==
    LET dest_path == parent_path \o r.correct
        queued == r.correct # <<>> /\ r.track # r.correct
                  /\ (~Exists(W, dest_path) \/ NormCase(r.track) = NormCase(r.correct))
    IN  IF ~queued \/ dry_run THEN W
        ELSE IF Exists(W, dest_path) /\ NormCase(r.track) # NormCase(r.correct) THEN W
        ELSE CleanUp(Rename(W, parent_path \o r.track, dest_path),
                     parent_path \o Parent(r.track))

----------------------------------------------------------------------------
(* fix_releases: one iteration of `for curr_dir in release_dirs` *)

\* validator.validate(fixed), validate_folder_name(fixed, ..., True, ...) and
\* add_unreadable_files: the kinds of the violations left after fixing
Violations(r) ==
    r.validator_violations
        \cup (IF ~r.can_validate_folder_name THEN {"FOLDER_NAME"} ELSE {})
        \cup (IF r.unreadable > 0 THEN {"UNREADABLE"} ELSE {})

World(F, L) == [d |-> F.d, f |-> F.f, loc |-> L, exc |-> "", ev |-> <<>>, deny |-> 0]

\* no os.rename is being retried; ev: the calls the unfinished iteration made
\* before it came to sleep in a loop
NoLoop == [at |-> 0, loop |-> "none", fails |-> 0, ev |-> <<>>]

\* `if len(violations) == 0: ... else: ...`; W is the world after the tags
\* were written and the files renamed
PlaceFolder(W, U, a, r, curr_dir) ==
    IF W.exc # "" THEN [w |-> W, u |-> U, ret |-> curr_dir, steps |-> {}]
    ELSE IF Violations(r) = {}
    THEN MoveRenameFolder(W, U, a, r, curr_dir)
    ELSE [w |-> MoveInvalidFolder(W, curr_dir, a.invalid_folder, Violations(r),
                                  a.move_invalid).w,
          u |-> U,
          ret |-> MoveInvalidFolder(W, curr_dir, a.invalid_folder, Violations(r),
                                    a.move_invalid).ret,
          steps |-> {"invalid"}]

\* `for x in fixed.tracks: ... cleartag.write_tags(...)`
Tagged(W, a, r, curr_dir) ==
    IF ~a.dry_run /\ r.retag THEN WriteTags(W, curr_dir \o r.track) ELSE W

\* the iteration for release i sleeps in the loop of rename_files: its tags
\* are written
InFileLoop(i) == perm.at = i /\ perm.loop = "file"

\* the iteration for release i sleeps in the loop of move_rename_folder: its
\* tags are written and its files renamed
InFolderLoop(i) == perm.at = i /\ perm.loop = "folder"

\* the world in which the iteration for release i goes on, with the calls it
\* made before it came to sleep; the system refuses the k-th os.rename outside
\* a loop (0: none)
Resumed(i, k) ==
    [World(fs, loc) EXCEPT !.ev = IF perm.at = i THEN perm.ev ELSE <<>>, !.deny = k]

\* the world in which the iteration for release i comes to the os.rename of
\* rename_files
ToFileLoop(i, k) ==
    IF InFileLoop(i) THEN Resumed(i, k)
    ELSE Tagged(Resumed(i, k), args, rel[i], rel[i].dir)

\* the world in which the iteration for release i comes to `if len(violations)
\* == 0`, and with it to the os.rename of move_rename_folder
ToFolderLoop(i, k) ==
    IF InFolderLoop(i) THEN Resumed(i, k)
    ELSE RenameFiles(ToFileLoop(i, k), rel[i], rel[i].dir, args.dry_run)

\* what is left of the iteration for release i, up to enforce_max_path: the
\* whole of it, or what follows the sleep it is in
Iteration(i, k) ==
    PlaceFolder(ToFolderLoop(i, k), unique_releases, args, rel[i], rel[i].dir)

\* the iteration ends: W is the world enforce_max_path left
Commit(i, res, W) ==
    /\ fs' = [d |-> W.d, f |-> W.f]
    /\ loc' = W.loc
    /\ unique_releases' = res.u
    /\ status' = IF W.exc # "" THEN "aborted" ELSE "running"
    /\ last' = [r |-> i,
                called |-> IF Violations(rel[i]) = {} THEN "move_rename_folder"
                           ELSE "move_invalid_folder",
                ret |-> res.ret, steps |-> res.steps, ev |-> W.ev, exc |-> W.exc,
                again |-> FALSE, fails |-> perm.fails]

\* enforce_max_path(moved_dir), under every order of os.scandir
Enforce(i, res) ==
    \E order \in (IF res.w.exc = "" /\ IsDir(res.w, res.ret)
                  THEN ScanOrders(res.w, res.ret) ELSE {<<>>}) :
        Commit(i, res, EnforceMaxPath(res.w, res.ret, order))

\* a lock check that lets every directory through
LockIgnored(r) == TRUE

\* can_lock_path(curr_dir): every file of the directory can be opened "rb+"
CanLockPath(r) == r.lockable

\* the loop body for the release with id i, found at release_dirs entry rel[i].dir
FixRelease(i) ==
    /\ status = "running"
    /\ i \in todo
    /\ perm.at \in {0, i}
    /\ todo' = todo \ {i}
    /\ perm' = NoLoop
    /\ UNCHANGED <<args, rel>>
    /\ IF ~CanLockPath(rel[i])
       THEN /\ last' = [r |-> i, called |-> "none", ret |-> rel[i].dir,
                        steps |-> {"lock_failed"}, ev |-> <<>>, exc |-> "",
                        again |-> FALSE, fails |-> 0]
            /\ UNCHANGED <<fs, loc, unique_releases, status>>
       ELSE Enforce(i, Iteration(i, 0))

----------------------------------------------------------------------------
(* The initial states: the command line, the scanned tree and its releases *)

SrcRoot == <<Nm("top"), Nm("src")>>
LibRoot == <<Nm("lib")>>
DupRoot == <<Nm("dup")>>
InvRoot == <<Nm("inv")>>

LongFolder == "Artist - Long Title [MP3]"

Plain ==
    [artists |-> <<"Art1">>, year |-> "2001", title |-> "T1", codec |-> "MP3", rank |-> 1,
     folder |-> "N1", num_violations |-> 0, can_validate_folder_name |-> TRUE,
     is_va |-> FALSE, artist_folder |-> "Art1", category |-> "Album",
     validator_violations |-> {}, unreadable |-> 0, retag |-> FALSE,
     track |-> <<Nm("track.mp3")>>, correct |-> <<Nm("track.mp3")>>, lockable |-> TRUE,
     dir |-> NoPath]

\* one release for every other circumstance the code reacts to
Special ==
    << [Plain EXCEPT !.title = "T2"],
       [Plain EXCEPT !.lockable = FALSE],
       [Plain EXCEPT !.unreadable = 1],
       [Plain EXCEPT !.can_validate_folder_name = FALSE],
       [Plain EXCEPT !.num_violations = 1, !.correct = <<>>],
       [Plain EXCEPT !.retag = TRUE, !.correct = <<Nm("01 - t.mp3")>>],
       [Plain EXCEPT !.track = <<Nm("cd1"), Nm("track.mp3")>>,
                     !.correct = <<Nm("01 - t.mp3")>>],
       [Plain EXCEPT !.track = <<Nm("long track.mp3")>>,
                     !.correct = <<Nm("long track.mp3")>>],
       [Plain EXCEPT !.folder = LongFolder] >>

\* one fingerprint under a lower and a higher get_codec_rank(), each under
\* either folder name
Regular ==
    << [Plain EXCEPT !.rank = 1, !.folder = "N1"],
       [Plain EXCEPT !.rank = 1, !.folder = "N2"],
       [Plain EXCEPT !.rank = 2, !.folder = "N1"],
       [Plain EXCEPT !.rank = 2, !.folder = "N2"] >>

\* the releases the scanned tree may hold
Profiles == Regular \o Special

Ids == 1..NumReleases

OrigName(i) == Nm(CASE i = 1 -> "o1" [] i = 2 -> "o2" [] i = 3 -> "o3" [] OTHER -> "o4")

Layouts == {"flat", "nested", "canon"}

\* the command lines of the model
Args ==
    LET dests == {[dest_folder |-> NoPath, group_by_artist |-> FALSE],
                  [dest_folder |-> SrcRoot, group_by_artist |-> FALSE],
                  [dest_folder |-> LibRoot, group_by_artist |-> FALSE],
                  [dest_folder |-> LibRoot, group_by_artist |-> TRUE]}
        fixing == {[dry_run |-> FALSE, group_by_artist |-> x.group_by_artist,
                    group_by_category |-> FALSE, dest_folder |-> x.dest_folder,
                    duplicate_folder |-> dup, invalid_folder |-> NoPath, move_invalid |-> ""]
                   : x \in dests, dup \in {NoPath, DupRoot}}
        moving == {[dry_run |-> dry, group_by_artist |-> FALSE,
                    group_by_category |-> TRUE, dest_folder |-> LibRoot,
                    duplicate_folder |-> DupRoot, invalid_folder |-> InvRoot,
                    move_invalid |-> "UNREADABLE"] : dry \in BOOLEAN}
    IN  fixing \cup moving

\* guess_group_by_category(src_folder, dest_folder) on the tree W
GuessGroupByCategory(W, src_folder, dest_folder) ==
    LET scan_folder == IF dest_folder # NoPath THEN dest_folder ELSE src_folder
    IN  \/ /\ Basename(scan_folder).id \in CategoryValues
           /\ Basename(scan_folder).sfx = 0 /\ Basename(scan_folder).cut = 0
        \/ \A curr \in ListDir(W, scan_folder) :
               /\ Basename(curr).id \in CategoryValues
               /\ Basename(curr).sfx = 0 /\ Basename(curr).cut = 0

\* main(): `if not args.group_by_category: args.group_by_category =
\* guess_group_by_category(src_folder, dest_folder)`; cmd is what parse_args
\* returned, the result is what fix_releases is called with
Main(cmd, W) ==
    [cmd EXCEPT !.group_by_category = @ \/ GuessGroupByCategory(W, SrcRoot, cmd.dest_folder)]

\* directories that are there before the run: an occupant of the destination,
\* of the duplicate folder or of the invalid folder
PreDirs(a, pre) ==
    CASE pre = "dest" -> {Join(CurrDestParentFolder(a, Plain), Nm("N1"))}
      [] pre = "dup" -> {Join(a.duplicate_folder, Nm("N1"))}
      [] pre = "dups" -> {Join(a.duplicate_folder, Nm("N1")),
                          Join(a.duplicate_folder, WithSuffix(Nm("N1"), 1))}
      [] pre = "inv" -> {Join(a.invalid_folder, OrigName(NumReleases))}
      [] OTHER -> {}

Pres(a) ==
    {"none"} \cup (IF a.dest_folder # NoPath THEN {"dest"} ELSE {})
             \cup (IF a.duplicate_folder # NoPath THEN {"dup", "dups"} ELSE {})
             \cup (IF a.invalid_folder # NoPath THEN {"inv"} ELSE {})

Prefixes(p) == {SubSeq(p, 1, k) : k \in 1..Len(p)}

\* where release i lies when the scan finds it
InitialDir(layout, taken, profile, i) ==
    CASE layout = "flat" -> Join(SrcRoot, OrigName(i))
      [] layout = "nested" -> Join(Join(SrcRoot, Nm("sub")), OrigName(i))
      [] OTHER ->
            IF Join(SrcRoot, GetFolderName(profile[i])) \in taken
               \/ \E j \in 1..(i - 1) : profile[j].folder = profile[i].folder
            THEN Join(SrcRoot, OrigName(i))
            ELSE Join(SrcRoot, GetFolderName(profile[i]))

\* the state in which fix_releases starts: the tree holds the folders of the
\* command line, the directories pdirs and release i with profile[i] at dir[i]
Start(a, pdirs, profile, dir) ==
    /\ args = a
    /\ rel = [i \in Ids |-> [profile[i] EXCEPT !.dir = dir[i]]]
    /\ fs = [d |-> UNION {Prefixes(p) :
                            p \in ({SrcRoot, a.dest_folder, a.duplicate_folder,
                                    a.invalid_folder} \ {NoPath}) \cup pdirs}
                   \cup UNION {Prefixes(dir[i] \o Parent(profile[i].track)) : i \in Ids},
             f |-> {dir[i] \o profile[i].track : i \in Ids}
                   \cup {Join(p, Nm("keep.txt")) : p \in pdirs}]
    /\ loc = dir
    /\ unique_releases = {}
    /\ todo = Ids
    /\ status = "running"
    /\ last = [r |-> 0, called |-> "none", ret |-> NoPath, steps |-> {},
               ev |-> <<>>, exc |-> "", again |-> FALSE, fails |-> 0]
    /\ perm = NoLoop

Placed(a, layout, pre, profile) ==
    Start(a, PreDirs(a, pre), profile,
          [i \in Ids |-> InitialDir(layout, PreDirs(a, pre), profile, i)])

\* the command line cmd, the tree main() finds and the arguments a that main()
\* hands to fix_releases: the occupants of the tree lie where a sends releases
Init ==
    \E cmd \in Args, layout \in Layouts, idx \in [Ids -> 1..Len(Profiles)] :
    \E a \in {cmd, [cmd EXCEPT !.group_by_category = TRUE]} :
    \E pre \in Pres(a) :
        /\ \A i, j \in Ids : i < j => idx[i] <= idx[j]
        /\ \A i, j \in Ids : i < j => idx[i] <= Len(Regular)
        /\ layout # "flat" => a.invalid_folder = NoPath
        /\ Placed(a, layout, pre, [i \in Ids |-> Profiles[idx[i]]])
        /\ a = Main(cmd, World(fs, loc))

Next == \E i \in Ids : FixRelease(i)

Spec == Init /\ [][Next]_vars

----------------------------------------------------------------------------
(* move_rename_folder called once more, with the same set, on the path the *)
(* call before returned for the same release                               *)

Again(i, res) ==
    /\ fs' = [d |-> res.w.d, f |-> res.w.f]
    /\ loc' = res.w.loc
    /\ unique_releases' = res.u
    /\ status' = IF res.w.exc # "" THEN "aborted" ELSE "running"
    /\ last' = [r |-> i, called |-> "move_rename_folder", ret |-> res.ret,
                steps |-> res.steps, ev |-> res.w.ev, exc |-> res.w.exc, again |-> TRUE,
                fails |-> 0]
    /\ UNCHANGED <<args, rel, todo, perm>>

PlaceAgain(i) ==
    /\ status = "running"
    /\ last.r = i /\ last.called = "move_rename_folder" /\ last.exc = "" /\ ~last.again
    /\ Again(i, MoveRenameFolder(World(fs, loc), unique_releases, args, rel[i], last.ret))

NextAgain == (\E i \in Ids : FixRelease(i)) \/ (\E i \in Ids : PlaceAgain(i))

SpecAgain == Init /\ [][NextAgain]_vars

----------------------------------------------------------------------------
(* The `while True` loops around os.rename: a PermissionError is logged,   *)
(* the loop sleeps a second and tries again.  A failed attempt changes     *)
(* the tree as the iteration had left it when it reached the loop; the      *)
(* attempt that succeeds is part of FixRelease.  An os.rename outside the   *)
(* loops that is refused ends the run.                                      *)

\* what the iteration for release i does to the filesystem once no rename is
\* refused
Outcome(i) == Iteration(i, 0)

\* the iteration for release i reaches os.rename(curr_dir, fixed_dir)
RenamesFolder(i) == rel[i].lockable /\ "renamed" \in Outcome(i).steps

\* the iteration for release i reaches os.rename of its track in rename_files
RenamesFile(i) ==
    /\ rel[i].lockable
    /\ \E k \in DOMAIN Outcome(i).w.ev :
           /\ Outcome(i).w.ev[k].op = "rename"
           /\ Outcome(i).w.ev[k].src = rel[i].dir \o rel[i].track

\* a loop that gives up when os.rename is refused
GivingUp(p, i, loop) == [p EXCEPT !.at = 0, !.loop = "none", !.fails = @ + 1]

\* `except PermissionError`: log, sleep, stay in the loop
Retrying(p, i, loop) == [p EXCEPT !.at = i, !.loop = loop, !.fails = @ + 1]

\* the world at the sleep of the loop: on reaching the loop of rename_files
\* the tags are written, on reaching the loop of move_rename_folder the files
\* are renamed as well
AtSleep(i, loop) ==
    IF loop = "file" THEN ToFileLoop(i, 0) ELSE ToFolderLoop(i, 0)

\* `except PermissionError: ...; time.sleep(1)` with the world W on disk
Sleeping(i, loop, W) ==
    /\ fs' = [d |-> W.d, f |-> W.f]
    /\ loc' = W.loc
    /\ perm' = [Retrying(perm, i, loop) EXCEPT !.ev = W.ev]

\* the os.rename calls of an iteration that are outside the loops: the move
\* to the destination or to the invalid folder, one of move_duplicate, and
\* those of enforce_max_path
MaxRefusedAt == 3

\* os.rename raises PermissionError in the loop of rename_files ("file") or of
\* move_rename_folder ("folder")
Denied(i, loop) ==
    /\ status = "running"
    /\ i \in todo
    /\ perm.at \in {0, i}
    /\ perm.fails < MaxDenied
    /\ \/ loop = "file" /\ perm.loop \in {"none", "file"} /\ RenamesFile(i)
       \/ loop = "folder" /\ RenamesFolder(i)
    /\ Sleeping(i, loop, AtSleep(i, loop))
    /\ UNCHANGED <<args, rel, unique_releases, todo, status, last>>

\* the iteration for release i in which the k-th os.rename outside a loop
\* (centrifuge.py 282, 358, 409, 460) raises PermissionError: nothing catches
\* it and fix_releases ends
Refused(i, k) ==
    /\ status = "running"
    /\ i \in todo
    /\ perm.at \in {0, i}
    /\ CanLockPath(rel[i])
    /\ todo' = todo \ {i}
    /\ perm' = NoLoop
    /\ UNCHANGED <<args, rel>>
    /\ Enforce(i, Iteration(i, k))
    /\ last'.exc = "PermissionError"

NextRetry ==
    \/ \E i \in Ids : FixRelease(i)
    \/ \E i \in Ids, loop \in {"file", "folder"} : Denied(i, loop)
    \/ \E i \in Ids, k \in 1..MaxRefusedAt : Refused(i, k)

\* the step that ends the iteration for release i: of the steps of NextRetry
\* those of FixRelease(i) and of Refused(i, k)
Finishes(i) ==
    /\ status = "running"
    /\ i \in todo
    /\ perm.at \in {0, i}
    /\ todo' = todo \ {i}

\* the loop tries again after every sleep, so an attempt that can succeed is
\* made in the end
SpecRetry ==
    Init /\ [][NextRetry]_vars /\ \A i \in Ids : WF_todo(Finishes(i))

----------------------------------------------------------------------------
(* assemble_discs, and the two modes of main() that hand it, or            *)
(* validate_releases, the release directories of the scan.  The string     *)
(* functions are tables over the folder names of the model.                *)

\* the release directories a scan yields
NumDirs == 3

\* re.findall(r'(?i)( )?([(\[{ ])?(disc|disk|cd|part)( ?)(\d{1,2})([)\]}])?', folder)
\* finds a disc variant
HasDiscVariant(folder) ==
    folder \in {"Album CD1", "Album CD2", "album CD2", "Album CD1 [MP3]", "AlbumCD1",
                "Other CD1", "CD1", "CD2"}

\* the character before the disc variant is alphanumeric
GluedToName(folder) == folder = "AlbumCD1"

\* folder.replace(''.join(match[0]), "")
WithoutDisc(folder) ==
    CASE folder \in {"Album CD1", "Album CD2"} -> "Album"
      [] folder = "album CD2" -> "album"
      [] folder = "Album CD1 [MP3]" -> "Album [MP3]"
      [] folder = "Other CD1" -> "Other"
      [] folder \in {"CD1", "CD2"} -> ""
      [] OTHER -> folder

\* re.sub(r' \[[\w]+\]', '', s), on one component of a path
WithoutTag(s) == IF s = "Album [MP3]" THEN "Album" ELSE s

\* str.lower, on one component of a path
Lower(s) ==
    CASE s = "Album" -> "album"
      [] s = "Other" -> "other"
      [] s = "Compilation" -> "compilation"
      [] s = "Mix" -> "mix"
      [] s = "EP" -> "ep"
      [] OTHER -> s

\* container after both substitutions: the directory part and the last
\* component ("" when the folder name is the disc variant alone, which leaves
\* a trailing separator)
ContainerOf(curr) ==
    [parent |-> [k \in 1..(Len(curr) - 1) |-> Nm(WithoutTag(curr[k].id))],
     name |-> WithoutTag(WithoutDisc(Basename(curr).id))]

\* container.lower()
LowerKey(c) ==
    [parent |-> [k \in 1..Len(c.parent) |-> Lower(c.parent[k].id)],
     name |-> Lower(c.name)]

\* the path the container string names
ContainerPath(c) == JoinOpt(c.parent, c.name)

\* `if match:` and not skipped
IsDiscDir(curr) ==
    HasDiscVariant(Basename(curr).id) /\ ~GluedToName(Basename(curr).id)

\* the map consolidate after the loop over release_dirs, in insertion order:
\* key, the container of the first directory seen for it, the folder names
RECURSIVE Grouped(_, _)
Grouped(dirs, acc) ==
    IF dirs = <<>> THEN acc
    ELSE IF ~IsDiscDir(Head(dirs)) THEN Grouped(Tail(dirs), acc)
    ELSE IF \E k \in DOMAIN acc : acc[k].key = LowerKey(ContainerOf(Head(dirs)))
    THEN Grouped(Tail(dirs),
                 [k \in DOMAIN acc |->
                     IF acc[k].key = LowerKey(ContainerOf(Head(dirs)))
                     THEN [acc[k] EXCEPT !.discs = @ \cup {Basename(Head(dirs)).id}]
                     ELSE acc[k]])
    ELSE Grouped(Tail(dirs),
                 Append(acc, [key |-> LowerKey(ContainerOf(Head(dirs))),
                              container |-> ContainerOf(Head(dirs)),
                              discs |-> {Basename(Head(dirs)).id}]))

\* `len(consolidate[key][1]) > 1`
MoreThanOneDisc(g) == Cardinality(g.discs) > 1

\* consolidate after the two comprehensions
Retained(dirs) == SelectSeq(Grouped(dirs, <<>>), MoreThanOneDisc)

\* os.rename(source, os.path.join(release_path, disc)) for the discs in order
RECURSIVE MoveDiscs(_, _, _)
MoveDiscs(W, c, discs) ==
    IF discs = <<>> THEN W
    ELSE MoveDiscs(RenameOnce(W, Join(c.parent, Nm(Head(discs))),
                          Join(ContainerPath(c), Nm(Head(discs)))),
                   c, Tail(discs))

\* `for release_path in consolidate`; order is the order in which the sets of
\* folder names are iterated
RECURSIVE MoveGroups(_, _, _)
MoveGroups(W, groups, order) ==
    IF groups = <<>> THEN W
    ELSE MoveGroups(MoveDiscs(MakeDirs(W, ContainerPath(Head(groups).container)),
                              Head(groups).container,
                              SelectSeq(order, LAMBDA d : d \in Head(groups).discs)),
                    Tail(groups), order)

\* the orders in which a set of folder names may be iterated
SetOrders(S) ==
    {o \in [1..Cardinality(S) -> S] : \A i, j \in DOMAIN o : i # j => o[i] # o[j]}

\* release_dirs as the scan yielded it
ReleaseDirs == [i \in DOMAIN rel |-> rel[i].dir]

\* the folder names of the retained groups
RetainedDiscs == UNION {Retained(ReleaseDirs)[k].discs : k \in DOMAIN Retained(ReleaseDirs)}

Assembled(W) ==
    /\ fs' = [d |-> W.d, f |-> W.f]
    /\ loc' = W.loc
    /\ status' = IF W.exc # "" THEN "aborted" ELSE "assembled"
    /\ last' = [r |-> 0, called |-> "assemble_discs", ret |-> NoPath, steps |-> {},
                ev |-> W.ev, exc |-> W.exc, again |-> FALSE, fails |-> 0]

\* assemble_discs(release_dirs, move_folders)
AssembleDiscs ==
    /\ status = "start"
    /\ args.assemble
    /\ IF args.move_folders
       THEN \E order \in SetOrders(RetainedDiscs) :
                Assembled(MoveGroups(World(fs, loc), Retained(ReleaseDirs), order))
       ELSE Assembled(World(fs, loc))
    /\ UNCHANGED <<args, rel, unique_releases, todo, perm>>

\* the loop body of validate_releases for release_dirs[i]
ValidateRelease(i) ==
    /\ args.mode = "validate"
    /\ status = IF args.assemble THEN "assembled" ELSE "start"
    /\ i \in todo
    /\ \A j \in todo : i <= j
    /\ todo' = todo \ {i}
    /\ last' = [r |-> i, called |-> "validate", ret |-> NoPath, steps |-> {},
                ev |-> <<>>, exc |-> "", again |-> FALSE, fails |-> 0]
    /\ UNCHANGED <<args, rel, fs, loc, unique_releases, status, perm>>

\* directories a scan of SrcRoot may yield
ScannedDirs ==
    {Join(SrcRoot, Nm(f)) :
        f \in {"Album CD1", "Album CD2", "album CD2", "Album CD1 [MP3]", "AlbumCD1",
               "Other CD1", "Plain"}}
    \cup {Join(Join(SrcRoot, Nm(p)), Nm(f)) :
            p \in {"Album [MP3]", "Album"}, f \in {"CD1", "CD2"}}
    \cup {Join(Join(SrcRoot, Nm("Album [MP3]")), Nm("Album CD1")),
          Join(Join(SrcRoot, Nm("Album")), Nm("Album CD2"))}

\* main() in fix mode (line 531), validate_releases as it stands (the call of
\* line 139 is a comment), and a caller that passes move_folders = False
Calls ==
    {[mode |-> "fix", assemble |-> TRUE, move_folders |-> TRUE],
     [mode |-> "validate", assemble |-> FALSE, move_folders |-> FALSE],
     [mode |-> "validate", assemble |-> TRUE, move_folders |-> FALSE]}

InitDiscs ==
    \E a \in Calls, n \in 1..NumDirs, pre \in SUBSET {Join(SrcRoot, Nm("Album"))} :
    \E dirs \in [1..n -> ScannedDirs] :
        /\ \A i, j \in 1..n : i # j => dirs[i] # dirs[j]
        /\ args = a
        /\ rel = [i \in 1..n |-> [dir |-> dirs[i], track |-> <<Nm("track.mp3")>>]]
        /\ fs = [d |-> UNION {Prefixes(p) : p \in {dirs[i] : i \in 1..n} \cup pre}
                       \cup Prefixes(SrcRoot),
                 f |-> {Join(dirs[i], Nm("track.mp3")) : i \in 1..n}]
        /\ loc = dirs
        /\ unique_releases = {}
        /\ todo = 1..n
        /\ status = "start"
        /\ last = [r |-> 0, called |-> "none", ret |-> NoPath, steps |-> {},
                   ev |-> <<>>, exc |-> "", again |-> FALSE, fails |-> 0]
        /\ perm = NoLoop

NextDiscs == AssembleDiscs \/ \E i \in 1..NumDirs : ValidateRelease(i)

SpecDiscs == InitDiscs /\ [][NextDiscs]_vars

----------------------------------------------------------------------------
(* enforce_max_path on its own: a directory whose path has between          *)
(* MAX_PARENT - NearLimit and MAX_PARENT + NearLimit characters, one entry  *)
(* in it of up to MaxStem characters before an extension of up to MaxExt,   *)
(* and possibly a second entry whose name is the one the first is to get.   *)

NearLimit == 4
MaxStem == 16
MaxExt == 12

\* a directory /top/<dir> with a path of n characters
LongDir(n) == <<Nm("top"), Sized("dir", n - (BaseLen("top") + 2), 0)>>

StartMaxPath(path, entry, cwd, taken) ==
    /\ args = [path |-> path, cwd |-> cwd]
    /\ rel = [i \in {1} |-> [dir |-> path, track |-> <<entry>>]]
    /\ fs = [d |-> Prefixes(path),
             f |-> {Join(path, entry)}
                   \cup (IF taken THEN {NewFullPath(Join(path, entry))} ELSE {})]
    /\ loc = [i \in {1} |-> path]
    /\ unique_releases = {}
    /\ todo = {1}
    /\ status = "running"
    /\ last = [r |-> 0, called |-> "none", ret |-> NoPath, steps |-> {},
               ev |-> <<>>, exc |-> "", again |-> FALSE, fails |-> 0]
    /\ perm = NoLoop

\* every name of the path p is one the filesystem takes
Nameable(p) == \A k \in 1..Len(p) : NameLen(p[k]) <= NAME_MAX

\* the entries: <<length of the name, length of its extension>>; next to the
\* short ones, the names of NAME_MAX characters that are nearly all extension
EntryShapes ==
    {<<stem + ext, ext>> : stem \in 1..MaxStem, ext \in 0..MaxExt}
        \cup {<<NAME_MAX, ext>> : ext \in (NAME_MAX - ELLIPSIS_LEN - 1)..(NAME_MAX - 1)}

\* cwd: the working directory, one of the directories of the tree; taken:
\* the path the entry is to get is a file of the tree already
InitMaxPath ==
    \E n \in (MAX_PARENT - NearLimit)..(MAX_PARENT + NearLimit), shape \in EntryShapes,
       taken \in BOOLEAN :
    \E cwd \in {<<>>} \cup Prefixes(LongDir(n)) :
        /\ StartMaxPath(LongDir(n), Sized("entry", shape[1], shape[2]), cwd, taken)
        /\ taken => PathLen(Join(LongDir(n), Sized("entry", shape[1], shape[2]))) > MAX_PATH
        /\ taken => Nameable(NewFullPath(Join(LongDir(n), Sized("entry", shape[1], shape[2]))))

Enforced(W) ==
    /\ fs' = [d |-> W.d, f |-> W.f]
    /\ loc' = W.loc
    /\ status' = IF W.exc # "" THEN "aborted" ELSE "running"
    /\ last' = [r |-> 1, called |-> "enforce_max_path", ret |-> NoPath, steps |-> {},
                ev |-> W.ev, exc |-> W.exc, again |-> FALSE, fails |-> 0]

\* enforce_max_path(path), under every order of os.scandir
EnforceOnly ==
    /\ status = "running"
    /\ todo = {1}
    /\ todo' = {}
    /\ \E order \in ScanOrders(World(fs, loc), args.path) :
           Enforced(EnforceMaxPath(World(fs, loc), args.path, order))
    /\ UNCHANGED <<args, rel, unique_releases, perm>>

NextMaxPath == EnforceOnly

SpecMaxPath == InitMaxPath /\ [][NextMaxPath]_vars

----------------------------------------------------------------------------
(* guess_category_from_path.  A path is here the list path.split(os.sep) of *)
(* its components as strings; the rules on the release folder's name are    *)
(* tables over the folder names of the model.  ReleaseCategory comes from   *)
(* the metafix package; the members used are those the tests of this        *)
(* repository name, and the order of iteration is left open.                *)

\* the orders in which `for category in ReleaseCategory` may run
CategoryOrders ==
    {o \in [1..Cardinality(CategoryValues) -> CategoryValues] :
        \A i, j \in DOMAIN o : i # j => o[i] # o[j]}

\* the first category of the iteration that is in S, "" when there is none
FirstOf(order, S) ==
    IF \E k \in DOMAIN order : order[k] \in S
    THEN order[CHOOSE k \in DOMAIN order :
                   order[k] \in S /\ \A j \in 1..(k - 1) : order[j] \notin S]
    ELSE ""

\* parent_dirs[-4:-1] if len(parent_dirs) > 3 else parent_dirs
ParentDirs(path) ==
    IF Len(path) > 3 THEN SubSeq(path, Len(path) - 3, Len(path) - 1) ELSE path

\* the categories a directory of parent_dirs is an exact match of
NamedByParents(path) ==
    {c \in CategoryValues :
        \E k \in DOMAIN ParentDirs(path) : Lower(ParentDirs(path)[k]) = Lower(c)}

\* "[category]", "(category)" or "{category}" is contained in the folder name
InBrackets(folder) ==
    CASE folder \in {"Various Artists - Comp [Mix]", "Banging Tunes [Mix]"} -> {"Mix"}
      [] folder = "Banging Tunes (EP)" -> {"EP"}
      [] folder = "Tunes [Mix] (EP)" -> {"Mix", "EP"}
      [] OTHER -> {}

\* the folder name ends with " category" or contains " category "
AsWord(folder) == IF folder = "Banging Tunes ep" THEN {"EP"} ELSE {}

\* re.search("(?i)[-_\[{( ]" + category.value + "[-_\]}) $]", release_dir)
InMiddle(folder) ==
    CASE folder \in {"Various Artists - Comp [Mix]", "Banging Tunes [Mix]",
                     "Tunes-Mix-2"} -> {"Mix"}
      [] folder = "Banging Tunes (EP)" -> {"EP"}
      [] folder = "Tunes [Mix] (EP)" -> {"Mix", "EP"}
      [] OTHER -> {}

\* the rules on the folder name, in the order of the source
FromFolderName(folder, order) ==
    IF InBrackets(folder) # {} THEN FirstOf(order, InBrackets(folder))
    ELSE IF AsWord(folder) \ {"Album"} # {} THEN FirstOf(order, AsWord(folder) \ {"Album"})
    ELSE IF InMiddle(folder) \ {"Album"} # {}
    THEN FirstOf(order, InMiddle(folder) \ {"Album"})
    ELSE "Album"

\* a classifier that looks at the brackets of the folder name first
GuessFromBracketsFirst(path, order) ==
    IF InBrackets(path[Len(path)]) # {} THEN FirstOf(order, InBrackets(path[Len(path)]))
    ELSE IF NamedByParents(path) # {} THEN FirstOf(order, NamedByParents(path))
    ELSE FromFolderName(path[Len(path)], order)

\* guess_category_from_path(path)
GuessCategoryFromPath(path, order) ==
    IF NamedByParents(path) # {} THEN FirstOf(order, NamedByParents(path))
    ELSE FromFolderName(path[Len(path)], order)

\* the paths of the model
CategoryPaths ==
    {pre \o <<parent, folder>> :
        pre \in {<<>>, <<"Root">>, <<"", "top">>, <<"", "Mix", "top">>,
                 <<"", "Mix", "top", "src">>},
        parent \in {"Root", "Compilation", "compilation", "Mix", "Music"},
        folder \in {"Various Artists - Comp [Mix]", "Banging Tunes",
                    "Banging Tunes [Mix]", "Banging Tunes ep", "Banging Tunes (EP)",
                    "Tunes [Mix] (EP)", "Tunes-Mix-2", "Mix"}}

InitCategory ==
    \E path \in CategoryPaths, order \in CategoryOrders :
        /\ args = [path |-> path, order |-> order]
        /\ rel = <<>>
        /\ fs = [d |-> {}, f |-> {}]
        /\ loc = <<>>
        /\ unique_releases = {}
        /\ todo = {1}
        /\ status = "running"
        /\ last = [r |-> 0, called |-> "none", category |-> ""]
        /\ perm = NoLoop

GuessCategory ==
    /\ todo = {1}
    /\ todo' = {}
    /\ last' = [r |-> 1, called |-> "guess_category_from_path",
                category |-> GuessCategoryFromPath(args.path, args.order)]
    /\ UNCHANGED <<args, rel, fs, loc, unique_releases, status, perm>>

NextCategory == GuessCategory

SpecCategory == InitCategory /\ [][NextCategory]_vars

----------------------------------------------------------------------------
(* load_directory, and what validate_releases and fix_releases make of its  *)
(* result for one release directory: the list of violations and, in fix     *)
(* mode, the function the folder is handed to.  What has_audio_extension,   *)
(* cleartag.read_tags and the validator answer for a file or a release is   *)
(* part of the input, as is what the scan of can_lock_path finds at the     *)
(* path and whether every file there opens for writing.  The name           *)
(* release.get_folder_name(codec_short, group_by_category) returns is the   *)
(* pair of its arguments.                                                   *)

\* the files list_files yields for a directory
NumFiles == 3

\* a file: has an audio extension / read_tags returns (no ClearTagError)
FileKinds == [audio_ext : BOOLEAN, readable : BOOLEAN]

\* the indices of the files whose kind is among kinds, in the order of the list
Picked(files, kinds) == SelectSeq([k \in DOMAIN files |-> k], LAMBDA k : files[k] \in kinds)

IsAudio(f) == f.audio_ext /\ f.readable
IsNonAudio(f) == ~f.audio_ext
IsUnreadable(f) == f.audio_ext /\ ~f.readable

\* a loop that lets go of the files whose tags cannot be read
LoadSkippingUnreadable(isdir, files) ==
    IF ~isdir
    THEN [exc |-> "InvalidPathError", returned |-> FALSE,
          audio |-> <<>>, non_audio |-> <<>>, unreadable |-> <<>>]
    ELSE [exc |-> "", returned |-> TRUE,
          audio |-> Picked(files, {f \in FileKinds : IsAudio(f)}),
          non_audio |-> Picked(files, {f \in FileKinds : IsNonAudio(f)}),
          unreadable |-> <<>>]

\* a loop that reads the tags of every file, whatever its extension
LoadWithoutExtensionTest(isdir, files) ==
    IF ~isdir
    THEN [exc |-> "InvalidPathError", returned |-> FALSE,
          audio |-> <<>>, non_audio |-> <<>>, unreadable |-> <<>>]
    ELSE [exc |-> "", returned |-> TRUE,
          audio |-> Picked(files, {f \in FileKinds : f.readable}),
          non_audio |-> Picked(files, {}),
          unreadable |-> Picked(files, {f \in FileKinds : ~f.readable})]

\* load_directory(path_param)
LoadDirectory(isdir, files) ==
    IF ~isdir
    THEN [exc |-> "InvalidPathError", returned |-> FALSE,
          audio |-> <<>>, non_audio |-> <<>>, unreadable |-> <<>>]
    ELSE [exc |-> "", returned |-> TRUE,
          audio |-> Picked(files, {f \in FileKinds : IsAudio(f)}),
          non_audio |-> Picked(files, {f \in FileKinds : IsNonAudio(f)}),
          unreadable |-> Picked(files, {f \in FileKinds : IsUnreadable(f)})]

\* release.get_folder_name(codec_short=..., group_by_category=...)
GetFolderNameWith(codec_short, group_by_category) == <<codec_short, group_by_category>>

\* validate_folder_name(release, violations, folder_name, skip_comparison,
\*                      group_by_category, codec_short): the violations appended
ValidateFolderName(r, folder_name, skip_comparison, group_by_category, codec_short) ==
    IF ~r.can_validate_folder_name THEN <<"FOLDER_NAME">>
    ELSE IF GetFolderNameWith(codec_short, group_by_category) # folder_name
            /\ ~skip_comparison
    THEN <<"FOLDER_NAME">>
    ELSE <<>>

\* add_unreadable_files(violations, unreadable): the violations appended
AddUnreadableFiles(unreadable) == [k \in DOMAIN unreadable |-> "UNREADABLE"]

\* validate_releases: the call validate_folder_name(release, violations,
\* folder, False, codec_short), whose fifth positional parameter is
\* group_by_category and whose codec_short keeps its default True
FolderCallOfValidate(a, r) ==
    [group_by_category |-> ~a.full_codec_names, codec_short |-> TRUE,
     violations |-> ValidateFolderName(r, r.folder_name, FALSE, ~a.full_codec_names, TRUE)]

\* fix_releases: validate_folder_name(fixed, violations, folder, True,
\* args.group_by_category, codec_short)
FolderCallOfFix(a, r) ==
    [group_by_category |-> a.group_by_category, codec_short |-> ~a.full_codec_names,
     violations |-> ValidateFolderName(r, r.folder_name, TRUE, a.group_by_category,
                                       ~a.full_codec_names)]

\* can_lock_path(path) on a path that is a directory, a file or missing:
\* list_files scans it with os.scandir, then every file is opened "rb+";
\* lockable: none of them raises PermissionError
CanLockPathOf(curr_dir, lockable) ==
    CASE curr_dir = "missing" -> [exc |-> "FileNotFoundError", ret |-> FALSE]
      [] curr_dir = "file" -> [exc |-> "NotADirectoryError", ret |-> FALSE]
      [] OTHER -> [exc |-> "", ret |-> lockable]

\* load_directory was not called
NothingLoaded ==
    [exc |-> "", returned |-> FALSE, audio |-> <<>>, non_audio |-> <<>>, unreadable |-> <<>>]

\* `if not can_lock_path(curr_dir): ...; continue`, or the exception exc that
\* can_lock_path raised
NotLoaded(exc) ==
    /\ status' = IF exc # "" THEN "aborted" ELSE "skipped"
    /\ last' = [r |-> 1, called |-> "can_lock_path", loaded |-> NothingLoaded,
                violations |-> <<>>, judged |-> <<>>, handed |-> "none", exc |-> exc]

Loaded(res) ==
    /\ status' = IF res.exc # "" THEN "aborted" ELSE "loaded"
    /\ last' = [r |-> 1, called |-> "load_directory", loaded |-> res,
                violations |-> <<>>, judged |-> <<>>, handed |-> "none", exc |-> res.exc]

\* the head of the loop body: in fix mode can_lock_path(curr_dir), in both
\* modes audio, non_audio, unreadable = load_directory(curr_dir)
LoadStep ==
    /\ status = "start"
    /\ IF args.mode = "fix" /\ ~CanLockPathOf(args.curr_dir, rel[1].lockable).ret
       THEN NotLoaded(CanLockPathOf(args.curr_dir, rel[1].lockable).exc)
       ELSE Loaded(LoadDirectory(args.curr_dir = "dir", rel[1].files))
    /\ UNCHANGED <<args, rel, fs, loc, unique_releases, todo, perm>>

Judged(call, violations, handed) ==
    /\ status' = "judged"
    /\ todo' = {}
    /\ last' = [last EXCEPT !.called = handed,
                            !.violations = violations,
                            !.judged = <<call.codec_short, call.group_by_category>>,
                            !.handed = handed]

\* the rest of the loop body of validate_releases
ValidateLoaded ==
    /\ status = "loaded" /\ args.mode = "validate"
    /\ Judged(FolderCallOfValidate(args, rel[1]),
              rel[1].validator \o FolderCallOfValidate(args, rel[1]).violations
                  \o AddUnreadableFiles(last.loaded.unreadable),
              "print")
    /\ UNCHANGED <<args, rel, fs, loc, unique_releases, perm>>

\* `if len(violations) == 0: move_rename_folder(...) else: move_invalid_folder(...)`
HandedTo(violations) ==
    IF Len(violations) = 0 THEN "move_rename_folder" ELSE "move_invalid_folder"

\* the loop body of fix_releases up to the choice between move_rename_folder
\* and move_invalid_folder
FixLoaded ==
    /\ status = "loaded" /\ args.mode = "fix"
    /\ Judged(FolderCallOfFix(args, rel[1]),
              rel[1].validator \o FolderCallOfFix(args, rel[1]).violations
                  \o AddUnreadableFiles(last.loaded.unreadable),
              HandedTo(rel[1].validator \o FolderCallOfFix(args, rel[1]).violations
                           \o AddUnreadableFiles(last.loaded.unreadable)))
    /\ UNCHANGED <<args, rel, fs, loc, unique_releases, perm>>

FileLists == UNION {[1..n -> FileKinds] : n \in 0..NumFiles}

InitLoad ==
    \E mode \in {"validate", "fix"}, gbc \in BOOLEAN, full \in BOOLEAN,
       curr_dir \in {"dir", "file", "missing"}, files \in FileLists, lockable \in BOOLEAN,
       validator \in {<<>>, <<"TAG">>}, can \in BOOLEAN,
       folder \in {<<>>} \cup (BOOLEAN \X BOOLEAN) :
        /\ curr_dir # "dir" => files = <<>>
        /\ files = <<>> => lockable
        /\ args = [mode |-> mode, group_by_category |-> gbc, full_codec_names |-> full,
                   curr_dir |-> curr_dir]
        /\ rel = [i \in {1} |-> [files |-> files, lockable |-> lockable,
                                 validator |-> validator,
                                 can_validate_folder_name |-> can,
                                 folder_name |-> folder]]
        /\ fs = [d |-> {}, f |-> {}]
        /\ loc = <<>>
        /\ unique_releases = {}
        /\ todo = {1}
        /\ status = "start"
        /\ last = [r |-> 0, called |-> "none", loaded |-> NothingLoaded,
                   violations |-> <<>>, judged |-> <<>>, handed |-> "none", exc |-> ""]
        /\ perm = NoLoop

NextLoad == LoadStep \/ ValidateLoaded \/ FixLoaded

SpecLoad == InitLoad /\ [][NextLoad]_vars

----------------------------------------------------------------------------
(* Vocabulary of the properties *)

Processed(i) == i \notin todo

\* release i goes through every step of move_rename_folder
Valid(i) ==
    /\ rel[i].lockable
    /\ Violations(rel[i]) = {}
    /\ rel[i].num_violations = 0

SameFingerprint(x, y) ==
    x.artists = y.artists /\ x.year = y.year /\ x.title = y.title /\ x.codec = y.codec

\* where move_rename_folder is to put release i: under the destination root
\* when one is configured, else under the canonical name next to where it lay
CanonicalDest(i) ==
    IF args.dest_folder # NoPath
    THEN Join(CurrDestParentFolder(args, rel[i]), GetFolderName(rel[i]))
    ELSE Join(Parent(rel[i].dir), GetFolderName(rel[i]))

UnderDuplicateRoot(p) ==
    args.duplicate_folder # NoPath /\ p # args.duplicate_folder
        /\ IsPrefix(args.duplicate_folder, p)

\* no destination, duplicate or invalid folder entry predates the run
NoOccupantBefore == \A p \in fs.f : Basename(p).id # "keep.txt"

\* a and b are two copies of one release, a of the strictly higher rank, and
\* the run has placed both
RankedPairPlaced(a, b) ==
    /\ a # b /\ Processed(a) /\ Processed(b)
    /\ ~args.dry_run /\ args.duplicate_folder # NoPath
    /\ Valid(a) /\ Valid(b)
    /\ SameFingerprint(rel[a], rel[b])
    /\ rel[a].rank > rel[b].rank

----------------------------------------------------------------------------
(* C1: of two releases with the same fingerprint, the one of strictly      *)
(* higher rank ends at the canonical destination and the other under the   *)
(* duplicate root, whichever of the two is processed first.  Stated for    *)
(* runs with a destination root, in a tree where nothing else occupies the *)
(* destination.                                                            *)

C1_RankDecidesPlacement ==
    \A a, b \in Ids :
        RankedPairPlaced(a, b) /\ args.dest_folder # NoPath /\ NoOccupantBefore
            => loc[a] = CanonicalDest(a) /\ UnderDuplicateRoot(loc[b])

----------------------------------------------------------------------------
(* C2: once two releases with equal fingerprints are both resolved, one is *)
(* at the canonical destination and the other under the duplicate root.    *)
(* Stated for a tree in which nothing but the two occupies a destination.  *)

\* a and b are two copies of one release and the run has placed both
PairPlaced(a, b) ==
    /\ a # b /\ Processed(a) /\ Processed(b)
    /\ ~args.dry_run /\ args.duplicate_folder # NoPath
    /\ Valid(a) /\ Valid(b)
    /\ SameFingerprint(rel[a], rel[b])

OneKeptOneDemoted(a, b) ==
    \/ loc[a] = CanonicalDest(a) /\ UnderDuplicateRoot(loc[b])
    \/ loc[b] = CanonicalDest(b) /\ UnderDuplicateRoot(loc[a])

\* C2: after two releases with equal fingerprints have both been resolved
\* (duplicate root configured, zero violations), one of them is at its
\* canonical destination path and the other is under the duplicate root.
C2_OneKeptOneDemoted ==
    \A a, b \in Ids : PairPlaced(a, b) /\ NoOccupantBefore => OneKeptOneDemoted(a, b)

----------------------------------------------------------------------------
(* C3: move_rename_folder returns the path at which the release passed to  *)
(* it resides when the call returns.                                       *)

C3_ReturnsRestingPath ==
    last.called = "move_rename_folder" /\ last.exc = "" => last.ret = loc[last.r]

----------------------------------------------------------------------------
(* C4: a second move_rename_folder call on the path the first returned,    *)
(* for a release that is canonically named and at its computed destination *)
(* there, changes nothing in the filesystem and returns the same path.     *)

\* release i lies at p, under its canonical name and at its destination
CanonicallyPlaced(i, p) ==
    /\ loc[i] = p
    /\ Basename(p) = GetFolderName(rel[i])
    /\ args.dest_folder # NoPath => p = CanonicalDest(i)

C4_SecondPlacementChangesNothing ==
    [][\A i \in Ids :
           PlaceAgain(i) /\ CanonicallyPlaced(i, last.ret)
               => fs' = fs /\ last'.ret = last.ret]_vars

----------------------------------------------------------------------------
(* C5: under --dry-run no step of a fix-mode run changes the filesystem.   *)

C5_DryRunChangesNothing == [][args.dry_run => fs' = fs]_vars

----------------------------------------------------------------------------
(* C6: the cleanup after a move never removes the scan root or a directory *)
(* above it.                                                               *)

C6_ScanRootIsKept == \A p \in Prefixes(SrcRoot) : p \in fs.d

----------------------------------------------------------------------------
(* C7: the cleanup loops call rmdir only on directories that are empty at  *)
(* that moment, and they end without an error: nothing that still has an   *)
(* entry is removed, and no file is.                                       *)

RmdirCalls == {k \in DOMAIN last.ev : last.ev[k].op = "rmdir"}

C7_CleanupRemovesOnlyEmpty ==
    /\ \A k \in RmdirCalls : last.ev[k].entries = {}
    /\ last.exc \notin EntryInTheWay
    /\ \A i \in Ids : loc[i] \o rel[i].track \in fs.f
                      \/ loc[i] \o rel[i].correct \in fs.f
                      \/ \E p \in fs.f : Parent(p) = loc[i] /\ Basename(p).cut > 0

\* a cleanup that removed an emptied directory and stopped at its parent,
\* which still has an entry
C7_Witness ==
    /\ last.exc = ""
    /\ \E k \in RmdirCalls :
           /\ last.ev[k].src \notin fs.d
           /\ Parent(last.ev[k].src) \in fs.d
           /\ ListDir(World(fs, loc), Parent(last.ev[k].src)) # {}

----------------------------------------------------------------------------
(* C8: after a release is skipped (its lock check failed, its destination  *)
(* is taken and there is no duplicate folder, or its path is too long to   *)
(* truncate), fix_releases goes on with the releases that are left.        *)

C8_SkippedReleaseDoesNotAbort ==
    \/ last.steps \cap {"lock_failed", "dest_exists"} # {}
    \/ last.exc = "ValueError"
    => status = "running"

----------------------------------------------------------------------------
(* C9: the tracking set never holds two entries of one fingerprint, also   *)
(* when they differ in rank or path.                                       *)

C9_OneEntryPerFingerprint ==
    \A x, y \in unique_releases : SameFingerprint(x, y) => x = y

\* a second copy of a tracked release, of another rank and at another path,
\* has gone through the deduplication
C9_Witness ==
    /\ last.steps \cap {"demoted_existing", "demoted_new"} # {}
    /\ last.exc = ""
    /\ \E x \in unique_releases :
           /\ SameFingerprint(x, rel[last.r])
           /\ \E j \in Ids \ {last.r} :
                  /\ Processed(j) /\ SameFingerprint(x, rel[j])
                  /\ rel[j].rank # rel[last.r].rank

----------------------------------------------------------------------------
(* C10: when the release being placed has the fingerprint of a tracked     *)
(* entry and a strictly greater rank, the directory at the entry's         *)
(* recorded path is moved into the duplicate root, the new release stays   *)
(* where it is, and the entry of that fingerprint afterwards carries the   *)
(* new release's rank and path.                                            *)

\* the tracked entry of release i's fingerprint
Tracked(U, i) == CHOOSE x \in U : SameFingerprint(x, rel[i])

\* release i goes through move_rename_folder in this step while an entry of
\* its fingerprint is tracked
MeetsTracked(i) ==
    /\ FixRelease(i) /\ Valid(i)
    /\ ~args.dry_run /\ args.duplicate_folder # NoPath
    /\ \E x \in unique_releases : SameFingerprint(x, rel[i])
    /\ last'.exc = ""

\* C10: when the release being placed has the fingerprint of a tracked entry
\* and a strictly greater rank, the directory at the entry's recorded path is
\* moved into the duplicate root, the new release is not, and the entry of
\* the fingerprint afterwards carries the new release's rank and path.
C10_ExistingIsDemoted ==
    [][\A i \in Ids :
           MeetsTracked(i) /\ rel[i].rank > Tracked(unique_releases, i).rank =>
               /\ \E j \in Ids \ {i} :
                      /\ loc[j] = Tracked(unique_releases, i).path
                      /\ Parent(loc'[j]) = args.duplicate_folder
               /\ Tracked(unique_releases, i).path \notin fs'.d
               /\ ~UnderDuplicateRoot(loc'[i])
               /\ loc'[i] \in fs'.d
               /\ Tracked(unique_releases', i).rank = rel[i].rank
               /\ Tracked(unique_releases', i).path = loc'[i]]_vars

----------------------------------------------------------------------------
(* C11: when the release being placed has the fingerprint of a tracked     *)
(* entry and a rank that is lower or equal, the release is moved into the  *)
(* duplicate root, and the tracked entry and the directory at its recorded *)
(* path are left as they were.                                             *)

\* the files below directory p in filesystem F
FilesBelow(F, p) == {q \in F.f : IsPrefix(p, q)}

C11_NewIsDemoted ==
    [][\A i \in Ids :
           MeetsTracked(i) /\ rel[i].rank <= Tracked(unique_releases, i).rank =>
               /\ Parent(loc'[i]) = args.duplicate_folder
               /\ loc'[i] \in fs'.d
               /\ unique_releases' = unique_releases
               /\ Tracked(unique_releases, i).path \in fs'.d
               /\ FilesBelow(fs', Tracked(unique_releases, i).path)
                      = FilesBelow(fs, Tracked(unique_releases, i).path)
               /\ \A j \in Ids \ {i} : loc[j] = Tracked(unique_releases, i).path
                                          => loc'[j] = loc[j]]_vars

\* a release of equal rank was demoted by the rank comparison, and the
\* tracked occupant is where it was
C11_Witness ==
    /\ "demoted_new" \in last.steps /\ last.exc = ""
    /\ UnderDuplicateRoot(loc[last.r])
    /\ \E x \in unique_releases :
           /\ SameFingerprint(x, rel[last.r]) /\ x.rank = rel[last.r].rank
           /\ \E j \in Ids \ {last.r} : Processed(j) /\ loc[j] = x.path

----------------------------------------------------------------------------
(* C12: move_duplicate puts the folder at duplicateRoot/name when that     *)
(* path is free, and otherwise at duplicateRoot/name_k for the smallest    *)
(* k >= 1 whose path is free; the path it renames to never exists, and the *)
(* search ends within as many attempts as the duplicate root has entries.  *)

\* the renames into the duplicate root among the filesystem calls in ev
DuplicateMoves(ev) ==
    {k \in DOMAIN ev : ev[k].op = "rename" /\ Parent(ev[k].dst) = args.duplicate_folder}

\* the release_folder_name release i's iteration passes to move_duplicate
DemotedName(i, steps) ==
    IF "demoted_existing" \in steps
    THEN Basename(Tracked(unique_releases, i).path)
    ELSE GetFolderName(rel[i])

C12_FirstFreeSuffix ==
    [][\A i \in Ids : FixRelease(i) /\ args.duplicate_folder # NoPath =>
           \A k \in DuplicateMoves(last'.ev) :
               LET dst == last'.ev[k].dst
                   name == DemotedName(i, last'.steps)
               IN  /\ ~Exists(World(fs, loc), dst)
                   /\ ~last'.ev[k].existed
                   /\ Basename(dst) = WithSuffix(name, Basename(dst).sfx)
                   /\ \A a \in 0..(Basename(dst).sfx - 1) :
                          Exists(World(fs, loc),
                                 Join(args.duplicate_folder, WithSuffix(name, a)))
                   /\ Basename(dst).sfx
                          <= Cardinality(ListDir(World(fs, loc), args.duplicate_folder))]_vars

\* a folder went to name_2 because name and name_1 were taken, and one went
\* to the plain name because it was free
C12_Witness ==
    /\ last.exc = ""
    /\ \E k \in DuplicateMoves(last.ev) :
           /\ Basename(last.ev[k].dst).sfx >= 2
           /\ last.ev[k].dst \in fs.d
    /\ \E p \in fs.d : Parent(p) = args.duplicate_folder /\ Basename(p).sfx = 1

----------------------------------------------------------------------------
(* C13: when another directory already lies at the computed destination,   *)
(* move_rename_folder leaves that directory as it is; with a duplicate     *)
(* root the release is moved under the duplicate root, and without one the *)
(* release stays in its directory and the path returned is where it lies.  *)

\* release i is placed in this step while another directory holds its
\* destination
DestinationTaken(i) ==
    /\ FixRelease(i) /\ Valid(i)
    /\ ~args.dry_run /\ args.dest_folder # NoPath
    /\ CanonicalDest(i) \in fs.d
    /\ loc[i] # CanonicalDest(i)

C13_OccupiedDestinationIsKept ==
    [][\A i \in Ids : DestinationTaken(i) =>
           /\ CanonicalDest(i) \in fs'.d
           /\ FilesBelow(fs', CanonicalDest(i)) = FilesBelow(fs, CanonicalDest(i))
           /\ \A j \in Ids \ {i} : loc[j] = CanonicalDest(i) => loc'[j] = loc[j]
           /\ IF args.duplicate_folder # NoPath
              THEN Parent(loc'[i]) = args.duplicate_folder /\ loc'[i] \in fs'.d
              ELSE /\ Parent(loc'[i]) = Parent(loc[i])
                   /\ loc'[i] \in fs'.d
                   /\ last'.ret = loc'[i]]_vars

\* without a duplicate root a release found its destination taken and stayed
C13_Witness ==
    /\ "dest_exists" \in last.steps /\ last.exc = ""
    /\ args.duplicate_folder = NoPath
    /\ CanonicalDest(last.r) \in fs.d
    /\ loc[last.r] # CanonicalDest(last.r)
    /\ last.ret = loc[last.r]

----------------------------------------------------------------------------
(* C14: when another directory has the canonical name next to the release, *)
(* the rename-in-place step does not rename the release directory: it lies *)
(* at its original path when the next step starts.  The step renames only  *)
(* to a path that was free (on POSIX no two different paths are equal up   *)
(* to os.path.normcase).                                                   *)

\* fixed_dir of release i
FixedDir(i) == Join(Parent(loc[i]), GetFolderName(rel[i]))

\* release i is placed in this step while its canonical name is taken
NameTaken(i) ==
    /\ FixRelease(i) /\ Valid(i) /\ ~args.dry_run
    /\ FixedDir(i) # loc[i]
    /\ Exists(World(fs, loc), FixedDir(i))

\* the renames of the directory at p to another name in the same directory
RenamesInPlace(ev, p) ==
    {k \in DOMAIN ev : ev[k].op = "rename" /\ ev[k].src = p
                       /\ Parent(ev[k].dst) = Parent(p)}

C14_TakenNameBlocksRename ==
    [][\A i \in Ids :
           /\ NameTaken(i) =>
                 /\ RenamesInPlace(last'.ev, loc[i]) = {}
                 /\ last'.exc \notin EntryInTheWay \cup {"FileNotFoundError"}
                 /\ "rename_blocked" \in last'.steps
                 /\ args.dest_folder = NoPath /\ args.duplicate_folder = NoPath
                        => loc'[i] = loc[i] /\ last'.ret = loc[i]
           /\ FixRelease(i) =>
                 \A k \in RenamesInPlace(last'.ev, loc[i]) :
                     ~Exists(World(fs, loc), last'.ev[k].dst)]_vars

\* a release whose canonical name was taken lies at its original path, next
\* to the directory of that name
C14_Witness ==
    /\ "rename_blocked" \in last.steps /\ last.exc = ""
    /\ loc[last.r] = rel[last.r].dir
    /\ Basename(loc[last.r]) # GetFolderName(rel[last.r])
    /\ Join(Parent(loc[last.r]), GetFolderName(rel[last.r])) \in fs.d

----------------------------------------------------------------------------
(* C15: the in-place rename is tried again after every PermissionError,    *)
(* without a limit: a refused attempt leaves the run in the loop on the    *)
(* same release, the loop is left only by the rename that succeeds, and    *)
(* once the refusals stop the folder is renamed.                           *)

\* the latest iteration renamed release i's folder to its canonical name
FolderRenamed(i) ==
    /\ last.r = i /\ "renamed" \in last.steps
    /\ \E k \in DOMAIN last.ev :
           /\ last.ev[k].op = "rename"
           /\ last.ev[k].src = rel[i].dir
           /\ last.ev[k].dst = Join(Parent(rel[i].dir), GetFolderName(rel[i]))

C15_RetriedUntilRenamed ==
    /\ [][\A i \in Ids, loop \in {"file", "folder"} :
              Denied(i, loop) =>
                  /\ perm'.at = i /\ perm'.loop = loop
                  /\ perm'.fails = perm.fails + 1
                  /\ todo' = todo /\ loc' = loc /\ status' = "running"
                  /\ perm.loop = loop => fs' = fs]_vars
    /\ [][\A i \in Ids :
              InFolderLoop(i) =>
                  \/ InFolderLoop(i)' /\ todo' = todo
                  \/ /\ FixRelease(i) \/ \E k \in 1..MaxRefusedAt : Refused(i, k)
                     /\ FolderRenamed(i)']_vars
    /\ \A i \in Ids : InFolderLoop(i) ~> FolderRenamed(i)

\* a folder was renamed after os.rename had been refused as often as the
\* model lets it
C15_Witness ==
    /\ last.fails = MaxDenied /\ last.exc = ""
    /\ FolderRenamed(last.r)
    /\ Basename(loc[last.r]) = GetFolderName(rel[last.r])

----------------------------------------------------------------------------
(* C16: assemble_discs creates a container and moves directories only for  *)
(* a container path to which, compared without case, at least two distinct *)
(* disc-folder names that lie beside each other map; a directory that is    *)
(* the only match for its container stays where it is and no container is  *)
(* made for it.                                                            *)

\* the distinct folder names of the disc directories of the scan that lie in
\* the directory of dir and map to the container of dir
SiblingNames(dir) ==
    {Basename(rel[j].dir).id : j \in {k \in DOMAIN rel :
        /\ IsDiscDir(rel[k].dir)
        /\ Parent(rel[k].dir) = Parent(dir)
        /\ LowerKey(ContainerOf(rel[k].dir)) = LowerKey(ContainerOf(dir))}}

\* directories of the scan with a disc variant in their name
DiscDirs == {i \in DOMAIN rel : IsDiscDir(rel[i].dir)}

\* i is one of several sibling discs of its container
InDiscSet(i) == i \in DiscDirs /\ Cardinality(SiblingNames(rel[i].dir)) >= 2

\* the container path the filesystem call e was made for
ContainerOfCall(e) == IF e.op = "makedirs" THEN e.src ELSE Parent(e.dst)

\* p with every component in lower case
LowerPath(p) == [n \in 1..Len(p) |-> Lower(p[n].id)]

\* the call e was made for the container of a set of at least two sibling
\* discs
ForDiscSet(e) ==
    \E i \in DiscDirs :
        /\ InDiscSet(i)
        /\ LowerPath(ContainerPath(ContainerOf(rel[i].dir)))
               = LowerPath(ContainerOfCall(e))

\* C16: every directory assemble_discs makes and every move it makes is for
\* a container that at least two distinct sibling disc-folder names map to,
\* and a directory that is not one of such a set keeps its path.
C16_OnlySetsAreConsolidated ==
    last.called = "assemble_discs" =>
        /\ \A k \in DOMAIN last.ev : ForDiscSet(last.ev[k])
        /\ \A i \in DOMAIN rel :
               ~InDiscSet(i) => loc[i] = rel[i].dir /\ rel[i].dir \in fs.d

----------------------------------------------------------------------------
(* C17: when assemble_discs(release_dirs, True) has returned, the container *)
(* of every retained group exists, and every disc directory of the group    *)
(* is directly inside it and no longer at the path it had beside it.        *)

\* the directories of the scan that belong to the group g
DiscsOf(g) ==
    {i \in DiscDirs : LowerKey(ContainerOf(rel[i].dir)) = g.key}

Consolidated(g) ==
    /\ ContainerPath(g.container) \in fs.d
    /\ \A i \in DiscsOf(g) :
           /\ loc[i] \in fs.d
           /\ Parent(loc[i]) = ContainerPath(g.container)
           /\ Parent(rel[i].dir) # ContainerPath(g.container) => rel[i].dir \notin fs.d

C17_DiscsEndInContainer ==
    last.called = "assemble_discs" /\ status = "assembled" /\ args.move_folders =>
        \A k \in DOMAIN Retained(ReleaseDirs) : Consolidated(Retained(ReleaseDirs)[k])

----------------------------------------------------------------------------
(* C18: called with move_folders = False, assemble_discs takes every        *)
(* directory of a retained disc group out of the working set of release     *)
(* directories, so that none of them is validated as a release of its own,  *)
(* and it makes no filesystem call.                                         *)

\* the directories of the scan that belong to a retained group
InRetainedGroup ==
    UNION {DiscsOf(Retained(ReleaseDirs)[k]) : k \in DOMAIN Retained(ReleaseDirs)}

C18_GroupsLeaveWorkingSet ==
    [][args.assemble /\ ~args.move_folders =>
           /\ fs' = fs
           /\ AssembleDiscs => todo' \cap InRetainedGroup = {}
           /\ \A i \in DOMAIN rel : ValidateRelease(i) => i \notin InRetainedGroup]_vars

----------------------------------------------------------------------------
(* C19: when can_lock_path(curr_dir) is false, the iteration writes no tag, *)
(* renames no file and renames or moves no folder: it logs the error and    *)
(* the loop goes on with the release directories that are left.             *)

C19_LockedReleaseIsSkipped ==
    [][\A i \in Ids :
           FixRelease(i) /\ ~rel[i].lockable =>
               /\ fs' = fs /\ loc' = loc /\ unique_releases' = unique_releases
               /\ last'.ev = <<>> /\ last'.steps = {"lock_failed"} /\ last'.exc = ""
               /\ todo' = todo \ {i}
               /\ status' = "running" /\ perm' = NoLoop]_vars

\* a release that could not be locked lies where it was found, and the
\* release after it has been handled
C19_Witness ==
    \E i \in Ids :
        /\ ~rel[i].lockable /\ Processed(i)
        /\ loc[i] = rel[i].dir /\ rel[i].dir \o rel[i].track \in fs.f
        /\ last.r # i /\ last.called # "none" /\ last.ev # <<>>
        /\ status = "running"

----------------------------------------------------------------------------
(* C20: whatever the length of its extension, an entry whose path has more  *)
(* than 255 characters in a directory whose path has fewer than 245 is      *)
(* renamed by enforce_max_path to a path in the same directory that has at  *)
(* most 255 characters and ends with ".." and the entry's extension.        *)

\* the entry enforce_max_path finds in the directory
Entry == Join(rel[1].dir, rel[1].track[1])

\* the call e renamed p as the claim says
Truncated(e, p) ==
    /\ e.op = "rename" /\ e.src = p
    /\ Parent(e.dst) = Parent(p)
    /\ PathLen(e.dst) <= MAX_PATH
    /\ Basename(e.dst).cut >= ELLIPSIS_LEN + Basename(p).ext
    /\ Basename(e.dst).mark = ELLIPSIS_LEN + Basename(p).ext
    /\ e.dst \in fs.f /\ p \notin fs.f

C20_TruncatedForEveryExtension ==
    /\ last.called = "enforce_max_path"
    /\ PathLen(Entry) > MAX_PATH
    /\ PathLen(Parent(Entry)) < MAX_PARENT
    => \E k \in DOMAIN last.ev : Truncated(last.ev[k], Entry)

----------------------------------------------------------------------------
(* C21: for an entry whose path has more than 255 characters in a directory *)
(* whose path has 245 or more, enforce_max_path raises its "Path is too     *)
(* long" error and does not rename the entry.                               *)

C21_TooLongParentIsAnError ==
    /\ last.called = "enforce_max_path"
    /\ PathLen(Entry) > MAX_PATH
    /\ PathLen(Parent(Entry)) >= MAX_PARENT
    => /\ last.exc = "ValueError"
       /\ Entry \in fs.f
       /\ \A k \in DOMAIN last.ev : last.ev[k].src # Entry

\* the error was raised for an entry in a directory of exactly 245 characters
C21_Witness ==
    /\ last.called = "enforce_max_path" /\ last.exc = "ValueError"
    /\ PathLen(Entry) > MAX_PATH
    /\ PathLen(Parent(Entry)) = MAX_PARENT
    /\ Entry \in fs.f

----------------------------------------------------------------------------
(* C22: for the release directory "Various Artists - Comp [Mix]" in a       *)
(* parent directory "Compilation", guess_category_from_path returns Mix:    *)
(* the bracketed tag of the folder name decides.                            *)

\* the path ends with .../Compilation/Various Artists - Comp [Mix]
CompInCompilation ==
    /\ args.path[Len(args.path)] = "Various Artists - Comp [Mix]"
    /\ args.path[Len(args.path) - 1] = "Compilation"

Guessed == last.called = "guess_category_from_path"

\* the claim as stated
C22_AsStated == Guessed /\ CompInCompilation => last.category = "Mix"

\* C22 as amended: a directory above the folder that is named like a category
\* decides, so with Compilation the only category so named the result is
\* Compilation; the tag of the folder name decides when none of the
\* directories looked at is named like a category
C22_ParentNameDecides ==
    /\ Guessed /\ CompInCompilation /\ NamedByParents(args.path) = {"Compilation"}
           => last.category = "Compilation"
    /\ Guessed /\ args.path[Len(args.path)] = "Various Artists - Comp [Mix]"
              /\ NamedByParents(args.path) = {}
           => last.category = "Mix"

\* the path of the claim was classified
C22_Witness ==
    /\ Guessed /\ CompInCompilation /\ last.category = "Compilation"
    /\ args.path = <<"Root", "Compilation", "Various Artists - Comp [Mix]">>

----------------------------------------------------------------------------
(* C23: an audio file whose tags cannot be read does not end the scan.      *)
(* load_directory returns it in unreadable; in validate and in fix mode the *)
(* release gets one UNREADABLE violation for each such file, so it has      *)
(* violations and is not handed to move_rename_folder.                      *)

\* the loop body came to its call of load_directory
LoadDirectoryCalled ==
    status \in {"loaded", "judged"} \/ (status = "aborted" /\ last.called = "load_directory")

\* the files of the directory whose tags cannot be read
TagsNotRead == {k \in DOMAIN rel[1].files :
                   rel[1].files[k].audio_ext /\ ~rel[1].files[k].readable}

UnreadableViolations ==
    {k \in DOMAIN last.violations : last.violations[k] = "UNREADABLE"}

C23_UnreadableFileIsAViolation ==
    /\ args.curr_dir = "dir" /\ status # "start" => status # "aborted" /\ last.exc = ""
    /\ args.curr_dir = "dir" /\ LoadDirectoryCalled =>
           {last.loaded.unreadable[k] : k \in DOMAIN last.loaded.unreadable} = TagsNotRead
    /\ status = "judged" =>
           /\ Cardinality(UnreadableViolations) = Cardinality(TagsNotRead)
           /\ TagsNotRead # {} =>
                  Len(last.violations) > 0 /\ last.handed # "move_rename_folder"

\* a release in fix mode whose only violations are those of its two
\* unreadable files
C23_Witness ==
    /\ status = "judged" /\ args.mode = "fix"
    /\ Cardinality(TagsNotRead) = 2
    /\ last.violations = <<"UNREADABLE", "UNREADABLE">>
    /\ last.handed = "move_invalid_folder"

----------------------------------------------------------------------------
(* C24: load_directory puts every file of the listing into exactly one of   *)
(* its result collections, a file with an audio extension whose tags are    *)
(* read into audio and every file without an audio extension into           *)
(* non_audio; for a path that is no directory it raises InvalidPathError    *)
(* and returns nothing.                                                     *)

\* the collections of the result in which file k of the listing occurs
CollectionsOf(k) ==
    {c \in {"audio", "non_audio", "unreadable"} :
        \E j \in DOMAIN last.loaded[c] : last.loaded[c][j] = k}

\* the entries of the result
Entries == Len(last.loaded.audio) + Len(last.loaded.non_audio) + Len(last.loaded.unreadable)

C24_EveryFileInOneCollection ==
    LoadDirectoryCalled =>
        IF args.curr_dir = "dir"
        THEN /\ last.loaded.returned /\ last.loaded.exc = ""
             /\ Entries = Len(rel[1].files)
             /\ \A k \in DOMAIN rel[1].files :
                    /\ Cardinality(CollectionsOf(k)) = 1
                    /\ rel[1].files[k].audio_ext /\ rel[1].files[k].readable
                           => CollectionsOf(k) = {"audio"}
                    /\ ~rel[1].files[k].audio_ext => CollectionsOf(k) = {"non_audio"}
        ELSE /\ status = "aborted" /\ last.loaded.exc = "InvalidPathError"
             /\ ~last.loaded.returned /\ Entries = 0

\* a listing with a file of each kind was loaded, and a path that is no
\* directory was refused
C24_Witness ==
    /\ status = "loaded" /\ args.curr_dir = "dir"
    /\ Len(last.loaded.audio) = 1 /\ Len(last.loaded.non_audio) = 1
    /\ Len(last.loaded.unreadable) = 1

\* C26: when either mode has judged the folder name, the canonical name it
\* compared against was computed with codec_short = not --full-codec-names
\* and group_by_category = the configured --group-by-category.
C26_SameCanonicalNameInBothModes ==
    status = "judged" =>
        last.judged = GetFolderNameWith(~args.full_codec_names, args.group_by_category)

----------------------------------------------------------------------------
(* C25: every os.rename of an iteration of fix_releases targets a path     *)
(* that was not there when the rename was made, unless the two paths       *)
(* differ in case only; no rename is refused because its target is taken.  *)

\* the os.rename calls of the last iteration that went through
Renames(ev) == {k \in DOMAIN ev : ev[k].op = "rename"}

\* C25: across the releases processed by fix_releases, each os.rename made
\* targets a path that did not exist immediately before it (or differs from
\* its source in case only), and no rename ends in an OSError for meeting an
\* entry at its target: nothing is overwritten or merged.
C25_RenameTargetsAreFree ==
    /\ \A k \in Renames(last.ev) :
           \/ ~last.ev[k].existed
           \/ /\ last.ev[k].src # last.ev[k].dst
              /\ NormCase(last.ev[k].src) = NormCase(last.ev[k].dst)
    /\ last.exc \notin EntryInTheWay

\* an iteration renamed the folder in place and then moved it under the
\* duplicate root, to the first name that was free there
C25_Witness ==
    /\ last.exc = "" /\ last.called = "move_rename_folder"
    /\ \E j, k \in Renames(last.ev) :
           /\ j < k
           /\ Parent(last.ev[j].dst) = Parent(last.ev[j].src)
           /\ last.ev[k].src = last.ev[j].dst
           /\ Parent(last.ev[k].dst) = DupRoot
           /\ Basename(last.ev[k].dst).sfx >= 1
           /\ last.ev[k].dst \in fs.d
           /\ Join(DupRoot, [Basename(last.ev[k].dst) EXCEPT !.sfx = 0]) \in fs.d

----------------------------------------------------------------------------
(* C28: a release that keeps a violation goes to move_invalid_folder, never *)
(* to move_rename_folder; its directory moves only to its own name under    *)
(* the invalid folder, and only when that folder is configured, the         *)
(* configured kind is among the violations and the name is free there.      *)

\* violations are left after fixing release i
Invalid(i) == Violations(rel[i]) # {}

\* where move_invalid_folder would put release i
InvalidDest(i) == Join(args.invalid_folder, Basename(loc[i]))

\* the three conditions under which move_invalid_folder moves release i
MayMoveInvalid(i) ==
    /\ args.invalid_folder # NoPath
    /\ args.move_invalid \in Violations(rel[i])
    /\ ~Exists(World(fs, loc), InvalidDest(i))

\* the renames of the last iteration that moved or renamed the directory p
RenamesOf(ev, p) == {k \in Renames(ev) : ev[k].src = p}

\* C28: in the iteration of a release with a violation left after fixing,
\* move_rename_folder is not called and the duplicate tracking is left alone;
\* the directory of such a release changes its path only in its own
\* iteration, only to its folder name under the configured invalid folder,
\* and only when the configured violation kind is among its violations and
\* nothing of that name was there; otherwise it stays where it was.
C28_InvalidReleaseIsOnlyMovedAside ==
    [][\A i \in Ids : FixRelease(i) =>
           /\ Invalid(i) /\ CanLockPath(rel[i]) =>
                 /\ last'.called = "move_invalid_folder"
                 /\ last'.steps \subseteq {"invalid"}
                 /\ unique_releases' = unique_releases
                 /\ RenamesOf(last'.ev, loc[i]) # {} =>
                        /\ MayMoveInvalid(i)
                        /\ \A k \in RenamesOf(last'.ev, loc[i]) :
                               last'.ev[k].dst = InvalidDest(i)
                 /\ ~MayMoveInvalid(i) => loc'[i] = loc[i] /\ last'.ret = loc[i]
           /\ \A j \in Ids : Invalid(j) /\ loc'[j] # loc[j] =>
                 /\ j = i /\ MayMoveInvalid(i)
                 /\ loc'[j] = InvalidDest(i)]_vars

\* a release with the configured kind of violation lies under the invalid
\* folder, moved there by move_invalid_folder
C28_Witness ==
    /\ last.called = "move_invalid_folder" /\ last.exc = ""
    /\ Invalid(last.r)
    /\ args.move_invalid \in Violations(rel[last.r])
    /\ loc[last.r] = Join(InvRoot, Basename(rel[last.r].dir))
    /\ loc[last.r] \in fs.d
    /\ rel[last.r].dir \notin fs.d

----------------------------------------------------------------------------
(* C27: between two iterations of fix_releases every entry of               *)
(* unique_releases records the place where a release directory lies that    *)
(* the resolver has not moved under the duplicate root.                     *)

\* the entry u names the current place of a release directory outside the
\* duplicate root
NamesKeptRelease(u) ==
    /\ u.path \in fs.d
    /\ \E i \in Ids : Processed(i) /\ loc[i] = u.path /\ SameFingerprint(rel[i], u)
    /\ ~UnderDuplicateRoot(u.path)

\* C27: at each point between iterations of a run that goes on, the path of
\* each entry of the duplicate-tracking set is the current location of an
\* existing release directory that was not moved into the duplicate root.
C27_TrackedPathsAreCurrent ==
    status = "running" => \A u \in unique_releases : NamesKeptRelease(u)

\* the resolver moved the tracked release under the duplicate root and the
\* entry now records where the release that replaced it lies
C27_Witness ==
    /\ status = "running" /\ last.exc = ""
    /\ "demoted_existing" \in last.steps
    /\ \E u \in unique_releases :
           /\ u.path = loc[last.r]
           /\ NamesKeptRelease(u)
           /\ \E j \in Ids \ {last.r} :
                  /\ SameFingerprint(rel[j], u)
                  /\ UnderDuplicateRoot(loc[j])
                  /\ loc[j] \in fs.d

====
